---- MODULE Spec2Model ----
(***************************************************************************)
(* smart-commit: the staged-change analyzer (GitAnalyzer) and the main     *)
(* command of src/smart_commit.py.                                         *)
(*                                                                         *)
(* Representation.  A Python str is a sequence of one-character strings.   *)
(* A multi-line text (a subprocess' stdout, a blob's decoded content, a    *)
(* diff excerpt) is kept as the list text.split('\n') of its lines: the    *)
(* empty text is << <<>> >>, the text "a\n" is << <<"a">>, <<>> >>.  The   *)
(* two forms determine each other ('\n'.join is JoinLines), so             *)
(* len(text.split('\n')) is Len of the representation.                     *)
(***************************************************************************)
EXTENDS Integers, Sequences, FiniteSets, TLC

\* ------------------------------------------------------------------ bounds
MaxStaged == 2
LongLines == 101

\* ------------------------------------------------------- string primitives
TAB == "\t"
NL == "\n"
Whitespace == {" ", TAB, NL, "\r"}
Empty == << >>

StartsWith(s, p) == Len(s) >= Len(p) /\ SubSeq(s, 1, Len(p)) = p

EndsWith(s, p) == Len(s) >= Len(p) /\ SubSeq(s, Len(s) - Len(p) + 1, Len(s)) = p

Contains(s, sub) ==
  \E i \in 1..(Len(s) - Len(sub) + 1) : SubSeq(s, i, i + Len(sub) - 1) = sub

Tail0(s, k) == SubSeq(s, k + 1, Len(s))

\* str.lstrip / str.rstrip / str.strip on one line
RECURSIVE LStrip(_)
LStrip(s) == IF s # Empty /\ Head(s) \in Whitespace THEN LStrip(Tail(s)) ELSE s

RECURSIVE RStrip(_)
RStrip(s) ==
  IF s # Empty /\ s[Len(s)] \in Whitespace THEN RStrip(SubSeq(s, 1, Len(s) - 1)) ELSE s

Strip(s) == RStrip(LStrip(s))

\* str.split(sep) for a one-character separator: all pieces
RECURSIVE SplitAll(_, _)
SplitAll(s, sep) ==
  IF \E i \in 1..Len(s) : s[i] = sep
  THEN LET i == CHOOSE k \in 1..Len(s) : s[k] = sep /\ \A j \in 1..(k - 1) : s[j] # sep
       IN  <<SubSeq(s, 1, i - 1)>> \o SplitAll(Tail0(s, i), sep)
  ELSE <<s>>

\* str.split(sep, 1): at most one split, at the first separator
SplitOnce(s, sep) ==
  IF \E i \in 1..Len(s) : s[i] = sep
  THEN LET i == CHOOSE k \in 1..Len(s) : s[k] = sep /\ \A j \in 1..(k - 1) : s[j] # sep
       IN  <<SubSeq(s, 1, i - 1), Tail0(s, i)>>
  ELSE <<s>>

\* '\n'.join(lines): the text as one str
RECURSIVE JoinRange(_, _, _)
JoinRange(t, lo, hi) ==
  IF lo > hi THEN Empty
  ELSE IF lo = hi THEN t[lo]
  ELSE LET mid == (lo + hi) \div 2
       IN  JoinRange(t, lo, mid) \o <<NL>> \o JoinRange(t, mid + 1, hi)

JoinLines(t) == JoinRange(t, 1, Len(t))

\* str(n) for n >= 0
DigitChar(d) == <<"0", "1", "2", "3", "4", "5", "6", "7", "8", "9">>[d + 1]

RECURSIVE Digits(_)
Digits(n) == IF n < 10 THEN <<DigitChar(n)>> ELSE Digits(n \div 10) \o <<DigitChar(n % 10)>>

\* int(s): the value, or "ValueError" when s is not a run of decimal digits
DigitVal(c) ==
  CASE c = "0" -> 0 [] c = "1" -> 1 [] c = "2" -> 2 [] c = "3" -> 3 [] c = "4" -> 4
    [] c = "5" -> 5 [] c = "6" -> 6 [] c = "7" -> 7 [] c = "8" -> 8 [] c = "9" -> 9

IsDigit(c) == c \in {"0", "1", "2", "3", "4", "5", "6", "7", "8", "9"}

RECURSIVE DigitsValue(_)
DigitsValue(s) ==
  IF s = Empty THEN 0 ELSE 10 * DigitsValue(SubSeq(s, 1, Len(s) - 1)) + DigitVal(s[Len(s)])

ParseInt(s) ==
  IF s # Empty /\ \A i \in 1..Len(s) : IsDigit(s[i])
  THEN [ok |-> TRUE, val |-> DigitsValue(s)]
  ELSE [ok |-> FALSE, val |-> 0]

\* sum of a field over a sequence of records
RECURSIVE SumAdditions(_)
SumAdditions(fs) == IF fs = << >> THEN 0 ELSE fs[1].additions + SumAdditions(Tail(fs))

RECURSIVE SumDeletions(_)
SumDeletions(fs) == IF fs = << >> THEN 0 ELSE fs[1].deletions + SumDeletions(Tail(fs))

\* ------------------------------------------------------- the working copy
\* Paths of the modelled working copies.  SpacePy begins with a blank.
OldPy == <<"o","l","d",".","p","y">>
NewPy == <<"n","e","w",".","p","y">>
ReadmeMd == <<"r","e","a","d","m","e",".","m","d">>
SpacePy == <<" ","s",".","p","y">>

\* git lists paths in byte order
PathOrder == <<SpacePy, NewPy, OldPy, ReadmeMd>>
Paths == {PathOrder[i] : i \in 1..Len(PathOrder)}

\* Blob contents, as decoded text.  "b1" and "b3" have 3 non-blank lines and
\* one blank line; "b2" is "b1" with 2 lines removed and 5 added; "long" has
\* LongLines lines.  Every file ends with a newline.
NoFile == "none"
Blobs == {"b1", "b2", "b3", "long"}

\* max_lines: int = 100, lines 360 and 383
max_lines == 100

\* Two more contents, for the excerpts by themselves: "full" has max_lines
\* lines, "full_diff" 6 lines less, so that its diff as a new file (6 header
\* lines) has max_lines lines.
FullContent(n) == [i \in 1..(n + 1) |-> IF i <= n THEN <<"l">> ELSE Empty]

LongContent == [i \in 1..(LongLines + 1) |-> IF i <= LongLines THEN <<"l">> ELSE Empty]

Content(b) ==
  CASE b = "b1" -> << <<"x">>, <<"y">>, Empty, <<"z">>, Empty >>
    [] b = "b2" -> << <<"x">>, <<"p">>, <<"q">>, <<"r">>, <<"s">>, <<"t">>, Empty, Empty >>
    [] b = "b3" -> << <<"a">>, <<"b">>, <<" ">>, <<"c">>, Empty >>
    [] b = "long" -> LongContent
    [] b = "full" -> FullContent(max_lines)
    [] b = "full_diff" -> FullContent(max_lines - 6)

\* the lines of a text file's content (without the empty piece after the
\* final newline)
FileLines(b) == SubSeq(Content(b), 1, Len(Content(b)) - 1)

\* the body of the unified diff between two blobs (NoFile = no such file)
DiffBody(old, new) ==
  IF old = NoFile THEN [i \in 1..Len(FileLines(new)) |-> <<"+">> \o FileLines(new)[i]]
  ELSE IF new = NoFile THEN [i \in 1..Len(FileLines(old)) |-> <<"-">> \o FileLines(old)[i]]
  ELSE IF old = "b1" /\ new = "b2"
  THEN << <<" ", "x">>, <<"-", "y">>, <<"+", "p">>, <<"+", "q">>, <<"+", "r">>,
          <<"+", "s">>, <<"+", "t">>, <<" ">>, <<"-", "z">> >>
  ELSE << >>

HeadOptions(p) == IF p = OldPy THEN {NoFile, "b1"} ELSE {NoFile}

IndexOptions(p) ==
  CASE p = OldPy -> {NoFile, "b1", "b2"}
    [] p = NewPy -> {NoFile, "b1"}
    [] p = ReadmeMd -> {NoFile, "b3", "long"}
    [] p = SpacePy -> {NoFile, "b3"}

ChangedPaths(r) == {p \in Paths : r.head[p] # r.index[p]}

\* A repository state: whether a commit exists, the tree of HEAD, the index,
\* and the orientation GitPython gives index.diff(<commit>) (reverse = TRUE:
\* the comparison is taken from the index to the commit).  The working tree
\* holds exactly the files of the index.
HeadTrees == {h \in [Paths -> Blobs \cup {NoFile}] : \A p \in Paths : h[p] \in HeadOptions(p)}
IndexTrees == {x \in [Paths -> Blobs \cup {NoFile}] : \A p \in Paths : x[p] \in IndexOptions(p)}

Repos ==
  {r \in [has_commits : BOOLEAN, head : HeadTrees, index : IndexTrees, reverse : BOOLEAN] :
     /\ ~r.has_commits => (\A p \in Paths : r.head[p] = NoFile) /\ ~r.reverse
     /\ Cardinality(ChangedPaths(r)) <= MaxStaged}

IndexPaths(r) == {p \in Paths : r.index[p] # NoFile}
OnDisk(r, p) == p \in Paths /\ r.index[p] # NoFile

\* ------------------------------------------------------------ git, as read
\* The staged changes of r as git reports them: one entry per changed path in
\* path order; a file deleted under one path and added with the same content
\* under another is one rename entry (git's default rename detection).
IsRenameSource(r, p) ==
  /\ r.head[p] # NoFile /\ r.index[p] = NoFile
  /\ \E q \in Paths : r.head[q] = NoFile /\ r.index[q] = r.head[p]

IsRenameTarget(r, q) ==
  /\ r.head[q] = NoFile /\ r.index[q] # NoFile
  /\ \E p \in Paths : r.head[p] = r.index[q] /\ r.index[p] = NoFile

RenameSourceOf(r, q) == CHOOSE p \in Paths : r.head[p] = r.index[q] /\ r.index[p] = NoFile

EntryOf(r, p) ==
  IF IsRenameTarget(r, p)
  THEN [status |-> <<"R","1","0","0">>, src |-> RenameSourceOf(r, p), path |-> p]
  ELSE IF r.head[p] = NoFile THEN [status |-> <<"A">>, src |-> p, path |-> p]
  ELSE IF r.index[p] = NoFile THEN [status |-> <<"D">>, src |-> p, path |-> p]
  ELSE [status |-> <<"M">>, src |-> p, path |-> p]

RECURSIVE EntriesFrom(_, _)
EntriesFrom(r, i) ==
  IF i > Len(PathOrder) THEN << >>
  ELSE LET p == PathOrder[i]
       IN  (IF p \in ChangedPaths(r) /\ ~IsRenameSource(r, p) THEN <<EntryOf(r, p)>> ELSE << >>)
           \o EntriesFrom(r, i + 1)

StagedEntries(r) == EntriesFrom(r, 1)

\* stdout of a git listing: one line per entry, each ended by a newline
Listing(lines) == lines \o <<Empty>>

\* git diff --cached --name-status
NameStatusLine(e) ==
  IF e.src = e.path THEN e.status \o <<TAB>> \o e.path
  ELSE e.status \o <<TAB>> \o e.src \o <<TAB>> \o e.path

NameStatusOut(r) ==
  Listing([i \in 1..Len(StagedEntries(r)) |-> NameStatusLine(StagedEntries(r)[i])])

\* git diff --cached --name-only
NameOnlyOut(r) ==
  Listing([i \in 1..Len(StagedEntries(r)) |-> StagedEntries(r)[i].path])

\* git diff --cached [--numstat] <path>, without "--": git refuses an
\* argument that is neither a revision nor a file of the working tree
PathArgOk(r, path) == OnDisk(r, path)

CountPrefix(lines, c) == Cardinality({i \in 1..Len(lines) : lines[i] # Empty /\ lines[i][1] = c})

\* git diff --cached --numstat <path>: "adds TAB dels TAB path", nothing for
\* an unchanged path.  Limited to one path, a rename shows as an addition.
NumstatOut(r, path) ==
  IF r.head[path] = r.index[path] THEN <<Empty>>
  ELSE LET old == IF IsRenameTarget(r, path) THEN NoFile ELSE r.head[path]
           body == DiffBody(old, r.index[path])
       IN  Listing(<<Digits(CountPrefix(body, "+")) \o <<TAB>> \o Digits(CountPrefix(body, "-"))
                     \o <<TAB>> \o path>>)

\* git diff --cached <path> (the same text as git diff --staged <path>)
DiffHeader(r, path, old) ==
  << <<"d","i","f","f"," ","-","-","g","i","t">> >>
  \o (IF old = NoFile THEN << <<"n","e","w"," ","f","i","l","e"," ","m","o","d","e">> >> ELSE << >>)
  \o << <<"i","n","d","e","x">> >>
  \o (IF old = NoFile THEN << <<"-","-","-"," ","/","d","e","v","/","n","u","l","l">> >>
      ELSE << <<"-","-","-"," ","a","/">> \o path >>)
  \o << <<"+","+","+"," ","b","/">> \o path, <<"@","@">> >>

DiffOut(r, path) ==
  IF r.head[path] = r.index[path] THEN <<Empty>>
  ELSE LET old == IF IsRenameTarget(r, path) THEN NoFile ELSE r.head[path]
       IN  Listing(DiffHeader(r, path, old) \o DiffBody(old, r.index[path]))

\* subprocess.run(..., check=True): what the call gives back.  outcome is the
\* environment's part: "ok", "TimeoutExpired" or "OSError"; git itself exits
\* non-zero (CalledProcessError) on a path argument it refuses.
Run(outcome, argOk, out) ==
  IF outcome # "ok" THEN [status |-> outcome, stdout |-> <<Empty>>]
  ELSE IF ~argOk THEN [status |-> "CalledProcessError", stdout |-> <<Empty>>]
  ELSE [status |-> "ok", stdout |-> out]

SubprocessOutcomes == {"ok", "TimeoutExpired", "OSError"}

\* ------------------------------------------- string literals of the source
S_PY == <<".","p","y">>
S_MIGRATION == <<"m","i","g","r","a","t","i","o","n">>
S_MIGRATIONS == <<"m","i","g","r","a","t","i","o","n","s">>
S_TEST == <<"t","e","s","t">>
S_TESTS == <<"t","e","s","t","s">>
S_MODEL == <<"m","o","d","e","l">>
S_MODELS == <<"m","o","d","e","l","s">>
S_API == <<"a","p","i">>
S_CONFIG == <<"c","o","n","f","i","g">>
S_SETTINGS == <<"s","e","t","t","i","n","g","s">>
S_JS == <<".","j","s">>
S_JSX == <<".","j","s","x">>
S_TS == <<".","t","s">>
S_TSX == <<".","t","s","x">>
S_JSON == <<".","j","s","o","n">>
S_YAML == <<".","y","a","m","l">>
S_YML == <<".","y","m","l">>
S_MD == <<".","m","d">>
S_TXT == <<".","t","x","t">>
S_RST == <<".","r","s","t">>
S_DOCKERFILE == <<"d","o","c","k","e","r","f","i","l","e">>
S_DOCKER_COMPOSE == <<"d","o","c","k","e","r","-","c","o","m","p","o","s","e">>
S_REQUIREMENTS == <<"r","e","q","u","i","r","e","m","e","n","t","s">>
S_SETUP_PY == <<"s","e","t","u","p",".","p","y">>
S_PYPROJECT_TOML == <<"p","y","p","r","o","j","e","c","t",".","t","o","m","l">>
S_TRUNC_A == <<".",".","."," ","(","t","r","u","n","c","a","t","e","d",","," ","s","h","o","w","i","n","g"," ","f","i","r","s","t"," ">>
S_TRUNC_B == <<" ","l","i","n","e","s",")">>
S_TIMEOUT == <<"#"," ","T","i","m","e","o","u","t"," ","r","e","a","d","i","n","g"," ","d","i","f","f"," ","f","o","r"," ">>
S_PLUS == <<"+","+","+"," ">>
S_NOT_FOUND == <<"#"," ","F","i","l","e"," ","n","o","t"," ","f","o","u","n","d">>
S_PERMISSION == <<"#"," ","P","e","r","m","i","s","s","i","o","n"," ","d","e","n","i","e","d">>
S_ERROR == <<"#"," ","E","r","r","o","r"," ","r","e","a","d","i","n","g"," ","f","i","l","e">>

\* GitPython: self.repo.index.diff(<commit>), in raw format (no patch text:
\* every item's diff is empty).  With r.reverse the two sides are swapped.
DiffItem(r, e) ==
  LET kind == e.status[1]
      fwd == [a_path |-> e.src, b_path |-> e.path,
              new_file |-> kind = "A", deleted_file |-> kind = "D",
              renamed_file |-> kind = "R", diff |-> <<Empty>>]
  IN  IF r.reverse
      THEN [a_path |-> e.path, b_path |-> e.src,
            new_file |-> kind = "D", deleted_file |-> kind = "A",
            renamed_file |-> kind = "R", diff |-> <<Empty>>]
      ELSE fwd

IndexDiff(r) == [i \in 1..Len(StagedEntries(r)) |-> DiffItem(r, StagedEntries(r)[i])]

RECURSIVE SelectItems(_, _)
SelectItems(items, path) ==
  IF items = << >> THEN << >>
  ELSE (IF items[1].a_path = path \/ items[1].b_path = path THEN <<items[1]>> ELSE << >>)
       \o SelectItems(Tail(items), path)

\* self.repo.index.diff("HEAD", paths=[file_path])
IndexDiffPaths(r, path) == SelectItems(IndexDiff(r), path)

\* self.repo.index.entries: the paths of the index, each at stage 0
IndexEntries(r) == {<<p, 0>> : p \in IndexPaths(r)}

RECURSIVE EntryKeysFrom(_, _)
EntryKeysFrom(r, i) ==
  IF i > Len(PathOrder) THEN << >>
  ELSE (IF PathOrder[i] \in IndexPaths(r) THEN << <<PathOrder[i], 0>> >> ELSE << >>)
       \o EntryKeysFrom(r, i + 1)

\* list(self.repo.index.entries.keys())
IndexEntryKeys(r) == EntryKeysFrom(r, 1)

\* ------------------------------------------------- GitAnalyzer: pure parts
UpperCase == <<"A","B","C","D","E","F","G","H","I","J","K","L","M","N","O","P","Q","R","S","T","U","V","W","X","Y","Z">>
LowerCase == <<"a","b","c","d","e","f","g","h","i","j","k","l","m","n","o","p","q","r","s","t","u","v","w","x","y","z">>

LowerChar(c) ==
  IF \E i \in 1..26 : UpperCase[i] = c
  THEN LowerCase[CHOOSE i \in 1..26 : UpperCase[i] = c]
  ELSE c

\* str.lower()
Lower(s) == [i \in 1..Len(s) |-> LowerChar(s[i])]

\* _categorize_file with the test branch ahead of the migration branch
_categorize_file_test_first(file_path) ==
  LET path_lower == Lower(file_path)
  IN  IF EndsWith(path_lower, S_PY)
      THEN IF Contains(path_lower, S_TEST) THEN "test"
           ELSE IF Contains(path_lower, S_MIGRATION) THEN "migration"
           ELSE IF Contains(path_lower, S_MODEL) THEN "model"
           ELSE IF Contains(path_lower, S_API) THEN "api"
           ELSE IF Contains(path_lower, S_CONFIG) \/ Contains(path_lower, S_SETTINGS) THEN "config"
           ELSE "python"
      ELSE IF \E x \in {S_JS, S_JSX, S_TS, S_TSX} : EndsWith(path_lower, x) THEN "javascript"
      ELSE IF \E x \in {S_JSON, S_YAML, S_YML} : EndsWith(path_lower, x) THEN "config"
      ELSE IF \E x \in {S_MD, S_TXT, S_RST} : EndsWith(path_lower, x) THEN "documentation"
      ELSE IF Contains(path_lower, S_DOCKERFILE) \/ Contains(path_lower, S_DOCKER_COMPOSE) THEN "docker"
      ELSE IF Contains(path_lower, S_REQUIREMENTS) \/ Contains(path_lower, S_SETUP_PY)
              \/ Contains(path_lower, S_PYPROJECT_TOML) THEN "dependencies"
      ELSE "other"

\* _categorize_file without the final else: the function falls off its end
_categorize_file_no_else(file_path) ==
  LET path_lower == Lower(file_path)
  IN  IF EndsWith(path_lower, S_PY) THEN "python"
      ELSE IF \E x \in {S_JS, S_JSX, S_TS, S_TSX} : EndsWith(path_lower, x) THEN "javascript"
      ELSE IF \E x \in {S_JSON, S_YAML, S_YML} : EndsWith(path_lower, x) THEN "config"
      ELSE IF \E x \in {S_MD, S_TXT, S_RST} : EndsWith(path_lower, x) THEN "documentation"
      ELSE "None"

_categorize_file(file_path) ==
  LET path_lower == Lower(file_path)
  IN  IF EndsWith(path_lower, S_PY)
      THEN IF Contains(path_lower, S_MIGRATION) \/ Contains(path_lower, S_MIGRATIONS) THEN "migration"
           ELSE IF Contains(path_lower, S_TEST) \/ Contains(path_lower, S_TESTS) THEN "test"
           ELSE IF Contains(path_lower, S_MODEL) \/ Contains(path_lower, S_MODELS) THEN "model"
           ELSE IF Contains(path_lower, S_API) THEN "api"
           ELSE IF Contains(path_lower, S_CONFIG) \/ Contains(path_lower, S_SETTINGS) THEN "config"
           ELSE "python"
      ELSE IF \E x \in {S_JS, S_JSX, S_TS, S_TSX} : EndsWith(path_lower, x) THEN "javascript"
      ELSE IF \E x \in {S_JSON, S_YAML, S_YML} : EndsWith(path_lower, x) THEN "config"
      ELSE IF \E x \in {S_MD, S_TXT, S_RST} : EndsWith(path_lower, x) THEN "documentation"
      ELSE IF Contains(path_lower, S_DOCKERFILE) \/ Contains(path_lower, S_DOCKER_COMPOSE) THEN "docker"
      ELSE IF Contains(path_lower, S_REQUIREMENTS) \/ Contains(path_lower, S_SETUP_PY)
              \/ Contains(path_lower, S_PYPROJECT_TOML) THEN "dependencies"
      ELSE "other"

\* the counting loop shared by _count_changes and _count_changes_from_diff
IsAddedLine(line) == StartsWith(line, <<"+">>) /\ ~StartsWith(line, <<"+","+","+">>)
IsDeletedLine(line) == StartsWith(line, <<"-">>) /\ ~IsAddedLine(line) /\ ~StartsWith(line, <<"-","-","-">>)

CountLines(text) ==
  <<Cardinality({i \in 1..Len(text) : IsAddedLine(text[i])}),
    Cardinality({i \in 1..Len(text) : IsDeletedLine(text[i])})>>

\* _count_changes(diff_index): the counts summed over the items' patch texts
RECURSIVE _count_changes(_)
_count_changes(diff_index) ==
  IF diff_index = << >> THEN <<0, 0>>
  ELSE LET c == CountLines(diff_index[1].diff)
           rest == _count_changes(Tail(diff_index))
       IN  <<c[1] + rest[1], c[2] + rest[2]>>

\* _count_changes_from_diff(file_path); outcome is the subprocess' fate
_count_changes_from_diff(r, file_path, outcome) ==
  LET result == Run(outcome, PathArgOk(r, file_path), DiffOut(r, file_path))
  IN  IF result.status = "ok" THEN CountLines(result.stdout) ELSE <<0, 0>>

_get_change_type(item) ==
  IF item.new_file THEN "added"
  ELSE IF item.deleted_file THEN "deleted"
  ELSE IF item.renamed_file THEN "renamed"
  ELSE "modified"

TruncationMarker(n) == S_TRUNC_A \o Digits(n) \o S_TRUNC_B

\* _get_diff_content(file_path)
_get_diff_content(r, file_path, outcome) ==
  LET result == Run(outcome, PathArgOk(r, file_path), DiffOut(r, file_path))
      diff_lines == result.stdout
  IN  IF result.status = "TimeoutExpired" THEN <<S_TIMEOUT \o file_path>>
      ELSE IF result.status # "ok" THEN <<Empty>>
      ELSE IF result.stdout = <<Empty>> THEN <<Empty>>
      ELSE IF Len(diff_lines) > max_lines
      THEN SubSeq(diff_lines, 1, max_lines) \o <<TruncationMarker(max_lines)>>
      ELSE result.stdout

\* self.repo.index[file_path] and blob.data_stream.read(): outcome "ok" gives
\* the staged content; "KeyError", "TypeError" are failures of the lookup,
\* "ReadError" a failure of the read.  A path that is not in the index cannot
\* be looked up.
BlobOutcomes == {"ok", "KeyError", "TypeError", "ReadError"}
BlobLookup(r, file_path, outcome) ==
  IF outcome \in {"ok", "ReadError"} /\ file_path \notin IndexPaths(r) THEN "KeyError" ELSE outcome

\* open(file_path): outcome "ok" gives the working-tree file; the path is
\* relative, so r is the working copy of the current directory
FileOutcomes == {"ok", "FileNotFoundError", "PermissionError", "OSError"}
FileOpen(r, file_path, outcome) ==
  IF outcome = "ok" /\ ~OnDisk(r, file_path) THEN "FileNotFoundError" ELSE outcome

\* _get_new_file_diff with the cut one line late: lines[:max_lines + 1]
_get_new_file_diff_late(r, w, file_path, blob_outcome, file_outcome) ==
  LET lines == Content(r.index[file_path])
  IN  IF BlobLookup(r, file_path, blob_outcome) = "ok"
      THEN <<S_PLUS \o file_path>>
           \o (IF Len(lines) > max_lines
               THEN SubSeq(lines, 1, max_lines + 1) \o <<TruncationMarker(max_lines)>>
               ELSE lines)
      ELSE <<S_PLUS \o file_path, S_ERROR>>

\* _get_new_file_diff(file_path): the blob is looked up in self.repo (r),
\* the file is opened in the current directory (w)
_get_new_file_diff(r, w, file_path, blob_outcome, file_outcome) ==
  LET blob == BlobLookup(r, file_path, blob_outcome)
      file == FileOpen(w, file_path, file_outcome)
      status == IF blob = "ok" THEN "ok"
                ELSE IF blob \in {"KeyError"} THEN file
                ELSE "Exception"
      content == IF blob = "ok" THEN Content(r.index[file_path]) ELSE Content(w.index[file_path])
      lines == content
      shown == IF Len(lines) > max_lines
               THEN SubSeq(lines, 1, max_lines) \o <<TruncationMarker(max_lines)>>
               ELSE content
  IN  IF status = "ok" THEN <<S_PLUS \o file_path>> \o shown
      ELSE IF status = "FileNotFoundError" THEN <<S_PLUS \o file_path, S_NOT_FOUND>>
      ELSE IF status = "PermissionError" THEN <<S_PLUS \o file_path, S_PERMISSION>>
      ELSE <<S_PLUS \o file_path, S_ERROR>>

\* the line count of a new file (lines 205-221 and 244-260)
NonBlank(text) == Cardinality({i \in 1..Len(text) : Strip(text[i]) # Empty})

NewFileAdditions(r, w, file_path, blob_outcome, file_outcome) ==
  LET blob == BlobLookup(r, file_path, blob_outcome)
      file == FileOpen(w, file_path, file_outcome)
  IN  IF blob = "ok" THEN NonBlank(Content(r.index[file_path]))
      ELSE IF blob = "ReadError"
      THEN LET size == Len(JoinLines(Content(r.index[file_path])))
           IN  IF size > 0 THEN size \div 80 ELSE 0
      ELSE IF file = "ok" THEN Len(FileLines(w.index[file_path]))
      ELSE 0

\* ------------------------------------------- GitAnalyzer.has_staged_changes
\* What a function body does: return a value, or raise.
Return(v) == [raised |-> FALSE, value |-> v, called |-> TRUE]
Raise == [raised |-> TRUE, value |-> FALSE, called |-> TRUE]

\* The faults the environment may put into one call: f.entries, f.entries2
\* (reading index.entries, first and later reads), f.head (resolving HEAD
\* fails with an error other than ValueError / BadName), f.diff1, f.diff2
\* (the two index-vs-HEAD comparisons).
HscFaults == [entries : BOOLEAN, entries2 : BOOLEAN, head : BOOLEAN, diff1 : BOOLEAN, diff2 : BOOLEAN]
NoFaults == [entries |-> FALSE, entries2 |-> FALSE, head |-> FALSE, diff1 |-> FALSE, diff2 |-> FALSE]

\* return len(self.repo.index.entries) > 0
HscIndexHasEntries(r, f) ==
  IF f.entries2 THEN Raise ELSE Return(Cardinality(IndexEntries(r)) > 0)

\* lines 409-435, inside the outer try
HscBody(r, f) ==
  IF f.entries THEN Raise
  ELSE IF Cardinality(IndexEntries(r)) = 0 THEN Return(FALSE)
  ELSE IF f.head THEN Raise
  ELSE IF ~r.has_commits THEN HscIndexHasEntries(r, f)
  ELSE IF f.diff1 THEN HscIndexHasEntries(r, f)
  ELSE IF Len(IndexDiff(r)) > 0 THEN Return(TRUE)
  ELSE IF f.diff2 THEN HscIndexHasEntries(r, f)
  ELSE IF \E i \in 1..Len(IndexDiff(r)) : IndexDiff(r)[i].new_file THEN Return(TRUE)
  ELSE Return(FALSE)

\* has_staged_changes without the handler of lines 436-437
has_staged_changes_unguarded(r, f) == HscBody(r, f)

\* lines 408 and 436-437: except Exception: return False
has_staged_changes(r, f) ==
  IF HscBody(r, f).raised THEN Return(FALSE) ELSE HscBody(r, f)

\* ------------------------------------------------------------------- state
VARIABLES
  repo,              \* the working copy the GitAnalyzer was opened at (self.repo)
  cwd,               \* the working copy in the process' current directory
  env,               \* how the calls into git, the library and the file system may end
  ending,            \* history: why the process ended, "none" while it runs
  given,             \* the argument of a function called by itself
  returned,          \* what that call returned, "none" before it
  pc,                \* where the process is
  exit_code,         \* the process' exit code, -1 while it runs
  hsc,               \* has_staged_changes: its faults and what it gave back
  staged_changes,    \* get_staged_changes: the lines of the status listing not yet handled
  has_commits,       \* get_staged_changes: has_commits
  staged_files,      \* get_staged_changes: staged_files
  total_additions,   \* get_staged_changes: total_additions
  total_deletions,   \* get_staged_changes: total_deletions
  processed_paths,   \* get_staged_changes: processed_paths
  diff_items,        \* get_staged_changes: the diff items not yet handled (lines 145, 237)
  staged_file_paths, \* get_staged_changes: the paths not yet handled (line 197)
  listing,           \* history: which enumerations of the staged paths ran, and how each ended
  gsc_outcome,       \* history: what became of the call of get_staged_changes
  changes,           \* main: changes
  commit_message,    \* main: commit_message
  calls              \* how often main reached get_staged_changes, the generation request, the commit

vars == <<repo, cwd, env, ending, given, returned, pc, exit_code, hsc, staged_changes, has_commits, staged_files, total_additions,
          total_deletions, processed_paths, diff_items, staged_file_paths, listing, gsc_outcome,
          changes, commit_message, calls>>

gsc_locals == <<staged_changes, has_commits, staged_files, total_additions, total_deletions,
                processed_paths, diff_items, staged_file_paths>>

history == <<listing, gsc_outcome>>

alone == <<given, returned>>

NoListing == [name_status |-> "none", fallback |-> "none", name_only |-> "none",
              entries |-> "none", index_diff |-> "none"]
NoChanges == [files |-> << >>, total_additions |-> 0, total_deletions |-> 0, file_count |-> 0]
HscIdle == [faults |-> NoFaults, result |-> [raised |-> FALSE, value |-> FALSE, called |-> FALSE]]

\* How the name-only listing of lines 183-188 may end.  It is run without
\* timeout: a git that hangs ("hang") is waited for without end.
NameOnlyOutcomes == {"ok", "OSError", "hang"}

\* The environment: for each kind of call the ways it may end.  subprocess:
\* the git calls with a timeout; name_only: the one without (lines 183-188);
\* probe: may the HEAD lookup fail otherwise than for want of a commit;
\* library: may a GitPython comparison or the entries fallback succeed, fail;
\* blob, file: the lookup of a staged blob and the opening of its file.
AnyEnv ==
  [subprocess |-> SubprocessOutcomes, name_only |-> NameOnlyOutcomes, probe |-> BOOLEAN,
   library |-> BOOLEAN, blob |-> BlobOutcomes, file |-> FileOutcomes]

Init ==
  /\ repo \in Repos
  /\ cwd = repo
  /\ env = AnyEnv
  /\ ending = "none"
  /\ given = Empty
  /\ returned = "none"
  /\ pc = "main"
  /\ exit_code = -1
  /\ hsc = HscIdle
  /\ staged_changes = << >>
  /\ has_commits = FALSE
  /\ staged_files = << >>
  /\ total_additions = 0
  /\ total_deletions = 0
  /\ processed_paths = {}
  /\ diff_items = << >>
  /\ staged_file_paths = << >>
  /\ listing = NoListing
  /\ gsc_outcome = "none"
  /\ changes = NoChanges
  /\ commit_message = Empty
  /\ calls = [gsc |-> 0, generate |-> 0, commit |-> 0]

\* sys.exit(code), or an exception nobody catches: the process is gone, and
\* with it what main held
\* sys.exit() without its argument
Exit_ignored(code, why) ==
  /\ pc' = "exit"
  /\ exit_code' = 0
  /\ ending' = why
  /\ changes' = NoChanges
  /\ commit_message' = Empty

Exit(code, why) ==
  /\ pc' = "exit"
  /\ exit_code' = code
  /\ ending' = why
  /\ changes' = NoChanges
  /\ commit_message' = Empty

\* main goes on to the given place
Goto(place) == pc' = place /\ exit_code' = exit_code /\ ending' = ending

\* ------------------------------------------------------------ main, part 1
\* line 689: GitAnalyzer(); __init__ exits with 1 when the repository cannot
\* be opened (lines 29-40)
MainOpen ==
  /\ pc = "main"
  /\ \E opened \in BOOLEAN :
       IF opened THEN Goto("has_staged_changes") /\ UNCHANGED <<changes, commit_message>>
       ELSE Exit(1, "not_a_repository")
  /\ UNCHANGED <<repo, cwd, env, alone, hsc, gsc_locals, history, calls>>

\* line 690: the call analyzer.has_staged_changes()
MainHasStagedChanges ==
  /\ pc = "has_staged_changes"
  /\ \E f \in HscFaults :
       hsc' = [faults |-> f, result |-> has_staged_changes(repo, f)]
  /\ pc' = "checked"
  /\ UNCHANGED <<repo, cwd, env, alone, ending, exit_code, gsc_locals, history, changes, commit_message, calls>>

\* main without the check of line 690
MainProceeds_always(h) == TRUE

\* lines 690-696: leave with 1 when nothing is staged, else analyse
MainProceeds(h) == ~h.result.raised /\ h.result.value

MainCheckStaged ==
  /\ pc = "checked"
  /\ IF MainProceeds(hsc)
     THEN /\ Goto("gsc_list")
          /\ calls' = [calls EXCEPT !.gsc = @ + 1]
          /\ gsc_outcome' = "running"
          /\ UNCHANGED <<changes, commit_message>>
     ELSE /\ Exit(1, "nothing_staged")
          /\ calls' = calls
          /\ gsc_outcome' = gsc_outcome
  /\ hsc' = [faults |-> NoFaults, result |-> hsc.result]
  /\ UNCHANGED <<repo, cwd, env, alone, gsc_locals, listing>>

\* ------------------------------------------ GitAnalyzer.get_staged_changes
\* [line.strip() for line in stdout.split('\n') if line.strip()]
RECURSIVE StrippedLines(_)
StrippedLines(text) ==
  IF text = << >> THEN << >>
  ELSE (IF Strip(text[1]) # Empty THEN <<Strip(text[1])>> ELSE << >>) \o StrippedLines(Tail(text))

FileRecord(path, type, file_type, additions, deletions, diff) ==
  [path |-> path, type |-> type, file_type |-> file_type,
   additions |-> additions, deletions |-> deletions, diff |-> diff]

\* lines 44-69: the status listing and the HEAD probe.  probe_error: resolving
\* HEAD fails with an error that is neither ValueError nor BadName, which
\* nothing in get_staged_changes catches.
\* lines 50-60: the lines of the status listing, none when the call failed
StatusListing(result) ==
  IF result.status = "ok" THEN StrippedLines(result.stdout) ELSE << >>

\* what a call that ended in result leaves in the history
Ended(result) == IF result.status = "ok" THEN "ok" ELSE "failed"

\* an exception leaves get_staged_changes: its locals are gone, main has no
\* handler for it
GscRaise ==
  /\ Exit(1, "analysis_raised")
  /\ gsc_outcome' = "raised"
  /\ staged_changes' = << >>
  /\ has_commits' = FALSE
  /\ staged_files' = << >>
  /\ total_additions' = 0
  /\ total_deletions' = 0
  /\ processed_paths' = {}
  /\ diff_items' = << >>
  /\ staged_file_paths' = << >>

\* processed_paths with whatever an earlier call put into it
StaleProcessedPaths == processed_paths

\* line 46: processed_paths = set()
FreshProcessedPaths == {}

GscList ==
  /\ pc = "gsc_list"
  /\ \E outcome \in env.subprocess, probe_error \in env.probe :
       LET result == Run(outcome, TRUE, NameStatusOut(cwd))
       IN  /\ listing' = [NoListing EXCEPT !.name_status = Ended(result)]
           /\ IF probe_error
              THEN GscRaise
              ELSE /\ Goto("gsc_status")
                   /\ staged_changes' = StatusListing(result)
                   /\ has_commits' = repo.has_commits
                   /\ staged_files' = << >>
                   /\ total_additions' = 0
                   /\ total_deletions' = 0
                   /\ processed_paths' = FreshProcessedPaths
                   /\ UNCHANGED <<diff_items, staged_file_paths, gsc_outcome, changes, commit_message>>
  /\ UNCHANGED <<repo, cwd, env, alone, hsc, calls>>

\* lines 88-96 without the test for 'C'
StatusChangeType_nocopy(status) ==
  IF StartsWith(status, <<"A">>) THEN "added"
  ELSE IF StartsWith(status, <<"D">>) THEN "deleted"
  ELSE IF StartsWith(status, <<"R">>) THEN "renamed"
  ELSE "modified"

\* lines 88-96
StatusChangeType(status) ==
  IF StartsWith(status, <<"A">>) THEN "added"
  ELSE IF StartsWith(status, <<"D">>) THEN "deleted"
  ELSE IF StartsWith(status, <<"R">>) \/ StartsWith(status, <<"C">>) THEN "renamed"
  ELSE "modified"

\* lines 77-82: the path a status line is taken to name
StatusLinePath(parts) == parts[2]

\* lines 98-122: the counts of one path in the status pass
StatusStats(r, file_path, numstat_outcome, diff_outcome) ==
  LET stats_result == Run(numstat_outcome, PathArgOk(r, file_path), NumstatOut(r, file_path))
      stats_line == Strip(JoinLines(stats_result.stdout))
      stats_parts == SplitAll(stats_line, TAB)
      a == ParseInt(stats_parts[1])
      d == ParseInt(stats_parts[2])
      fallback == _count_changes_from_diff(r, file_path, diff_outcome)
  IN  IF stats_result.status # "ok" THEN fallback
      ELSE IF stats_line = Empty THEN fallback
      ELSE IF Len(stats_parts) < 2 THEN fallback
      ELSE IF stats_parts[1] # <<"-">> /\ ~a.ok THEN fallback
      ELSE IF stats_parts[2] # <<"-">> /\ ~d.ok THEN fallback
      ELSE <<IF stats_parts[1] # <<"-">> THEN a.val ELSE 0,
             IF stats_parts[2] # <<"-">> THEN d.val ELSE 0>>

\* a total that is not kept up
AddTotal_dropped(total, count) == total

\* lines 124-125, 156-157, 223, 262: total += count
AddTotal(total, count) == total + count

\* the passes without the membership test in processed_paths
NotYetProcessed_always(file_path, processed) == TRUE

\* lines 84-85, 147-148, 201, 240: is the path still to be recorded
NotYetProcessed(file_path, processed) == file_path \notin processed

\* lines 72-140: one line of the status listing
GscStatusLine ==
  /\ pc = "gsc_status"
  /\ staged_changes # << >>
  /\ LET change_line == Head(staged_changes)
         parts == SplitOnce(change_line, TAB)
         status == parts[1]
         file_path == StatusLinePath(parts)
     IN  IF Len(parts) # 2 \/ ~NotYetProcessed(file_path, processed_paths)
         THEN UNCHANGED <<processed_paths, total_additions, total_deletions, staged_files>>
         ELSE \E stats \in {StatusStats(cwd, file_path, numstat_outcome, count_outcome) :
                               numstat_outcome \in env.subprocess,
                               count_outcome \in env.subprocess},
                 diff_content \in {_get_diff_content(cwd, file_path, diff_outcome) :
                                      diff_outcome \in env.subprocess} :
                /\ processed_paths' = processed_paths \cup {file_path}
                /\ total_additions' = AddTotal(total_additions, stats[1])
                /\ total_deletions' = AddTotal(total_deletions, stats[2])
                /\ staged_files' = Append(staged_files,
                     FileRecord(file_path, StatusChangeType(status), _categorize_file(file_path),
                                stats[1], stats[2], diff_content))
  /\ staged_changes' = Tail(staged_changes)
  /\ UNCHANGED <<repo, cwd, env, alone, ending, pc, exit_code, hsc, has_commits, diff_items, staged_file_paths, listing,
                 gsc_outcome, changes, commit_message, calls>>

\* line 143 without the test of staged_files
FallbackRuns_commits(files, commits) == commits

\* line 143: the fallback pass runs when the status pass found nothing and
\* commits exist
FallbackRuns(files, commits) == files = << >> /\ commits

GscStatusDone ==
  /\ pc = "gsc_status"
  /\ staged_changes = << >>
  /\ pc' = IF FallbackRuns(staged_files, has_commits) THEN "gsc_fallback" ELSE "gsc_new"
  /\ UNCHANGED <<repo, cwd, env, alone, ending, exit_code, hsc, gsc_locals, history, changes, commit_message, calls>>

\* lines 144-145 and 173-174: self.repo.index.diff("HEAD"); when it raises
\* the pass is over
GscFallbackEnumerate ==
  /\ pc = "gsc_fallback"
  /\ \E ok \in env.library :
       IF ok
       THEN /\ diff_items' = IndexDiff(repo)
            /\ listing' = [listing EXCEPT !.fallback = "ok"]
            /\ pc' = "gsc_fallback_loop"
       ELSE /\ diff_items' = << >>
            /\ listing' = [listing EXCEPT !.fallback = "failed"]
            /\ pc' = "gsc_new"
  /\ UNCHANGED <<repo, cwd, env, alone, ending, exit_code, hsc, staged_changes, has_commits, staged_files, total_additions,
                 total_deletions, processed_paths, staged_file_paths, gsc_outcome, changes, commit_message, calls>>

\* what an exception inside the loop of lines 145-172 does: line 173 catches
\* it and the pass is over
FallbackAbort == pc' = "gsc_new" /\ diff_items' = << >>

\* lines 146-172: one item of the fallback pass.  diff_ok: the per-path
\* comparison of line 154 succeeds; count_ok: _count_changes does (it decodes
\* every item's patch).
GscFallbackItem ==
  /\ pc = "gsc_fallback_loop"
  /\ diff_items # << >>
  /\ LET item == Head(diff_items)
         file_path == IF item.a_path # Empty THEN item.a_path ELSE item.b_path
     IN  IF ~NotYetProcessed(file_path, processed_paths)
         THEN /\ diff_items' = Tail(diff_items)
              /\ UNCHANGED <<pc, processed_paths, total_additions, total_deletions, staged_files>>
         ELSE /\ processed_paths' = processed_paths \cup {file_path}
              /\ \E diff_ok \in env.library, count_ok \in env.library :
                   IF ~diff_ok \/ ~count_ok
                   THEN /\ FallbackAbort
                        /\ UNCHANGED <<total_additions, total_deletions, staged_files>>
                   ELSE \E diff_content \in {_get_diff_content(cwd, file_path, diff_outcome) :
                                                diff_outcome \in env.subprocess} :
                        LET stats == _count_changes(IndexDiffPaths(repo, file_path))
                        IN  /\ total_additions' = AddTotal(total_additions, stats[1])
                            /\ total_deletions' = AddTotal(total_deletions, stats[2])
                            /\ staged_files' = Append(staged_files,
                                 FileRecord(file_path, _get_change_type(item),
                                            _categorize_file(file_path), stats[1], stats[2],
                                            diff_content))
                            /\ diff_items' = Tail(diff_items)
                            /\ pc' = pc
  /\ UNCHANGED <<repo, cwd, env, alone, ending, exit_code, hsc, staged_changes, has_commits, staged_file_paths, listing,
                 gsc_outcome, changes, commit_message, calls>>

GscFallbackDone ==
  /\ pc = "gsc_fallback_loop"
  /\ diff_items = << >>
  /\ pc' = "gsc_new"
  /\ UNCHANGED <<repo, cwd, env, alone, ending, exit_code, hsc, gsc_locals, history, changes, commit_message, calls>>

\* an element of staged_file_paths: a str (from the name-only listing) or a
\* (path, stage) key of index.entries
StrItem(path) == [is_tuple |-> FALSE, value |-> path]
TupleItem(key) == [is_tuple |-> TRUE, value |-> key]

\* lines 182-195 without the handler of lines 194-195: when both enumerations
\* fail the exception leaves get_staged_changes
FreshPaths_raising(result, entries_ok, keys) ==
  IF result.status = "ok"
  THEN [raised |-> FALSE,
        paths |-> [i \in 1..Len(StrippedLines(result.stdout)) |-> StrItem(StrippedLines(result.stdout)[i])]]
  ELSE IF entries_ok
  THEN [raised |-> FALSE, paths |-> [i \in 1..Len(keys) |-> TupleItem(keys[i])]]
  ELSE [raised |-> TRUE, paths |-> << >>]

\* lines 182-195: the staged paths of a repository without commits, from the
\* name-only listing, else from index.entries, else none; nothing is raised
FreshPaths(result, entries_ok, keys) ==
  IF result.status = "ok"
  THEN [raised |-> FALSE,
        paths |-> [i \in 1..Len(StrippedLines(result.stdout)) |-> StrItem(StrippedLines(result.stdout)[i])]]
  ELSE IF entries_ok
  THEN [raised |-> FALSE, paths |-> [i \in 1..Len(keys) |-> TupleItem(keys[i])]]
  ELSE [raised |-> FALSE, paths |-> << >>]

\* lines 179-195: no commits yet; the enumeration of the staged paths
GscNewEnumerateFresh ==
  /\ pc = "gsc_new"
  /\ ~has_commits
  /\ \E outcome \in env.name_only, entries_ok \in env.library :
       LET result == Run(outcome, TRUE, NameOnlyOut(cwd))
           found == FreshPaths(result, entries_ok, IndexEntryKeys(repo))
       IN  /\ listing' = IF outcome = "hang" THEN [listing EXCEPT !.name_only = "hung"]
                         ELSE IF result.status = "ok"
                         THEN [listing EXCEPT !.name_only = "ok"]
                         ELSE [listing EXCEPT !.name_only = "failed",
                                              !.entries = IF entries_ok THEN "ok" ELSE "failed"]
           /\ IF found.raised
              THEN GscRaise
              ELSE IF outcome = "hang"
              THEN /\ Goto("gsc_hung")
                   /\ UNCHANGED <<staged_changes, has_commits, staged_files, total_additions,
                                  total_deletions, processed_paths, diff_items, staged_file_paths,
                                  gsc_outcome, changes, commit_message>>
              ELSE /\ staged_file_paths' = found.paths
                   /\ Goto("gsc_new_paths")
                   /\ UNCHANGED <<staged_changes, has_commits, staged_files, total_additions,
                                  total_deletions, processed_paths, diff_items, gsc_outcome,
                                  changes, commit_message>>
  /\ UNCHANGED <<repo, cwd, env, alone, hsc, calls>>

\* lines 205-233 and 244-272: the records a new file can get.  How the lookup
\* of its blob and the opening of its working-tree file end is a matter of
\* the file in the given repository state: the same for the line count and
\* for _get_new_file_diff.
NewFileRecords(r, w, file_path) ==
  {FileRecord(file_path, "added", _categorize_file(file_path),
              NewFileAdditions(r, w, file_path, blob_outcome, file_outcome), 0,
              _get_new_file_diff(r, w, file_path, blob_outcome, file_outcome)) :
     blob_outcome \in env.blob, file_outcome \in env.file}

\* lines 197-233: one staged path of a repository without commits
GscNewPath ==
  /\ pc = "gsc_new_paths"
  /\ staged_file_paths # << >>
  /\ LET it == Head(staged_file_paths)
         file_path == IF it.is_tuple
                      THEN (IF it.value # << >> THEN it.value[1] ELSE Empty)
                      ELSE it.value
     IN  IF file_path = Empty \/ ~NotYetProcessed(file_path, processed_paths)
         THEN UNCHANGED <<processed_paths, total_additions, staged_files>>
         ELSE \E rec \in NewFileRecords(repo, cwd, file_path) :
                /\ processed_paths' = processed_paths \cup {file_path}
                /\ total_additions' = AddTotal(total_additions, rec.additions)
                /\ staged_files' = Append(staged_files, rec)
  /\ staged_file_paths' = Tail(staged_file_paths)
  /\ UNCHANGED <<repo, cwd, env, alone, ending, pc, exit_code, hsc, staged_changes, has_commits, total_deletions, diff_items,
                 listing, gsc_outcome, changes, commit_message, calls>>

\* lines 236-237 and 273-274: commits exist; self.repo.index.diff(head_commit)
GscNewEnumerate ==
  /\ pc = "gsc_new"
  /\ has_commits
  /\ \E ok \in env.library :
       IF ok
       THEN /\ diff_items' = IndexDiff(repo)
            /\ listing' = [listing EXCEPT !.index_diff = "ok"]
       ELSE /\ diff_items' = << >>
            /\ listing' = [listing EXCEPT !.index_diff = "failed"]
  /\ pc' = "gsc_new_items"
  /\ UNCHANGED <<repo, cwd, env, alone, ending, exit_code, hsc, staged_changes, has_commits, staged_files, total_additions,
                 total_deletions, processed_paths, staged_file_paths, gsc_outcome, changes, commit_message, calls>>

\* lines 237-272: one diff item of a repository with commits
GscNewItem ==
  /\ pc = "gsc_new_items"
  /\ diff_items # << >>
  /\ LET item == Head(diff_items)
         file_path == item.a_path
     IN  IF ~item.new_file \/ ~NotYetProcessed(file_path, processed_paths)
         THEN UNCHANGED <<processed_paths, total_additions, staged_files>>
         ELSE \E rec \in NewFileRecords(repo, cwd, file_path) :
                /\ processed_paths' = processed_paths \cup {file_path}
                /\ total_additions' = AddTotal(total_additions, rec.additions)
                /\ staged_files' = Append(staged_files, rec)
  /\ diff_items' = Tail(diff_items)
  /\ UNCHANGED <<repo, cwd, env, alone, ending, pc, exit_code, hsc, staged_changes, has_commits, total_deletions,
                 staged_file_paths, listing, gsc_outcome, changes, commit_message, calls>>

\* the loop of the new-file pass is through
GscNewDone ==
  /\ \/ pc = "gsc_new_paths" /\ staged_file_paths = << >>
     \/ pc = "gsc_new_items" /\ diff_items = << >>
  /\ pc' = "gsc_return"
  /\ UNCHANGED <<repo, cwd, env, alone, ending, exit_code, hsc, gsc_locals, history, changes, commit_message, calls>>

\* lines 276-281: the result.  The locals are gone with the return; the model
\* keeps processed_paths as the call left it until the next call begins.
Result(files, additions, deletions) ==
  [files |-> files, total_additions |-> additions, total_deletions |-> deletions,
   file_count |-> Len(files)]

GscReturn ==
  /\ pc = "gsc_return"
  /\ changes' = Result(staged_files, total_additions, total_deletions)
  /\ pc' = "generate"
  /\ staged_changes' = << >>
  /\ has_commits' = FALSE
  /\ staged_files' = << >>
  /\ total_additions' = 0
  /\ total_deletions' = 0
  /\ diff_items' = << >>
  /\ staged_file_paths' = << >>
  /\ gsc_outcome' = "returned"
  /\ UNCHANGED <<repo, cwd, env, alone, ending, exit_code, hsc, processed_paths, listing, commit_message, calls>>

\* ------------------------------------------------------------ main, part 2
\* What the provider answers: a message, blanks only, nothing, a failure, or
\* the user interrupts the request.
Responses == {<<"f","i","x">>, <<" ">>, Empty}

\* lines 557-601: the failures of the request the except branch tells apart
RequestFailures == {"rate_limit", "quota", "authentication", "model", "other"}

\* generate_message that asks once more after a failed request
generate_message_retrying(chg, outcome, content) ==
  IF chg.files = << >> THEN [kind |-> "ValueError", message |-> Empty, requests |-> 0]
  ELSE IF outcome = "interrupt" THEN [kind |-> "interrupt", message |-> Empty, requests |-> 1]
  ELSE IF outcome \in RequestFailures \/ content = Empty THEN [kind |-> "exit", message |-> Empty, requests |-> 2]
  ELSE [kind |-> "ok", message |-> Strip(content), requests |-> 1]

\* generate_message(changes), lines 531-601: "ValueError" for a change set
\* without files (nothing is requested), else the one request's fate: the
\* stripped content, "exit" for sys.exit(1) after a failed or empty answer,
\* "interrupt" for KeyboardInterrupt; requests: how often it asked
generate_message(chg, outcome, content) ==
  IF chg.files = << >> THEN [kind |-> "ValueError", message |-> Empty, requests |-> 0]
  ELSE IF outcome = "interrupt" THEN [kind |-> "interrupt", message |-> Empty, requests |-> 1]
  ELSE IF outcome \in RequestFailures \/ content = Empty THEN [kind |-> "exit", message |-> Empty, requests |-> 1]
  ELSE [kind |-> "ok", message |-> Strip(content), requests |-> 1]

RequestOutcomes == {"ok", "interrupt"} \cup RequestFailures

\* every way one call of generate_message(chg) can end
Generations(chg) ==
  {generate_message(chg, outcome, content) : outcome \in RequestOutcomes, content \in Responses}

\* lines 740-748: the generator (which exits with 1 without an API key, line
\* 513) and the first request
MainGenerate ==
  /\ pc = "generate"
  /\ \E has_key \in BOOLEAN, g \in Generations(changes) :
       IF ~has_key
       THEN Exit(1, "no_api_key") /\ calls' = calls
       ELSE /\ calls' = [calls EXCEPT !.generate = @ + g.requests]
            /\ CASE g.kind = "ok" ->
                      Goto("menu") /\ commit_message' = g.message /\ changes' = changes
                 [] g.kind = "interrupt" -> Exit(0, "interrupted")
                 [] g.kind = "ValueError" -> Exit(1, "nothing_to_analyze")
                 [] OTHER -> Exit(1, "generation_failed")
  /\ UNCHANGED <<repo, cwd, env, alone, hsc, gsc_locals, history>>

Choices == {"c", "e", "r", "q", "x"}

\* lines 765-780, 811, 833-834: what the flags and the menu choice lead to
MenuAction(auto_commit, no_preview, choice) ==
  IF auto_commit THEN "commit"
  ELSE IF no_preview THEN "commit"
  ELSE IF choice = "q" THEN "quit"
  ELSE IF choice = "e" THEN "edit"
  ELSE IF choice = "r" THEN "regenerate"
  ELSE "commit"

\* lines 764-780, 811-813, 833-834: one pass through the flags and the menu
Menu(auto_commit, no_preview, choice) ==
  LET action == MenuAction(auto_commit, no_preview, choice)
  IN  IF action = "quit" THEN Exit(0, "quit")
      ELSE Goto(action) /\ UNCHANGED <<changes, commit_message>>

\* lines 764-780, 811-813, 833-834: the flags and the menu
MainMenu ==
  /\ pc = "menu"
  /\ \E auto_commit \in BOOLEAN, no_preview \in BOOLEAN, choice \in Choices :
       Menu(auto_commit, no_preview, choice)
  /\ UNCHANGED <<repo, cwd, env, alone, hsc, gsc_locals, history, calls>>

\* lines 781-810: the editor
MainEdit ==
  /\ pc = "edit"
  /\ \E editor_ok \in BOOLEAN, edited_message \in {Strip(edited) : edited \in Responses} :
       IF ~editor_ok THEN Exit(1, "editor_failed")
       ELSE IF edited_message = Empty THEN Exit(0, "empty_edit")
       ELSE Goto("commit") /\ commit_message' = edited_message /\ changes' = changes
  /\ UNCHANGED <<repo, cwd, env, alone, hsc, gsc_locals, history, calls>>

\* lines 811-832: the second request and the confirmation.  An interrupt is
\* caught by nobody here and ends the process with 1.
MainRegenerate ==
  /\ pc = "regenerate"
  /\ \E g \in Generations(changes), confirmed \in BOOLEAN :
       /\ calls' = [calls EXCEPT !.generate = @ + g.requests]
       /\ IF g.kind = "interrupt" THEN Exit(1, "aborted")
          ELSE IF g.kind # "ok" THEN Exit(1, "generation_failed")
          ELSE IF confirmed
          THEN Goto("commit") /\ commit_message' = g.message /\ changes' = changes
          ELSE Exit(0, "declined")
  /\ UNCHANGED <<repo, cwd, env, alone, hsc, gsc_locals, history>>

EmptyMessage_unchecked(message) == FALSE

\* line 838: not commit_message or not commit_message.strip()
EmptyMessage(message) == message = Empty \/ Strip(message) = Empty

\* lines 836-856: the commit, refused for an empty message
MainCommit ==
  /\ pc = "commit"
  /\ IF EmptyMessage(commit_message)
     THEN Exit(1, "empty_message") /\ calls' = calls
     ELSE /\ calls' = [calls EXCEPT !.commit = @ + 1]
          /\ \E committed \in BOOLEAN :
               IF committed THEN Exit(0, "committed") ELSE Exit(1, "commit_failed")
  /\ UNCHANGED <<repo, cwd, env, alone, hsc, gsc_locals, history>>

Next ==
  \/ MainOpen
  \/ MainHasStagedChanges
  \/ MainCheckStaged
  \/ GscList
  \/ GscStatusLine
  \/ GscStatusDone
  \/ GscFallbackEnumerate
  \/ GscFallbackItem
  \/ GscFallbackDone
  \/ GscNewEnumerateFresh
  \/ GscNewPath
  \/ GscNewEnumerate
  \/ GscNewItem
  \/ GscNewDone
  \/ GscReturn
  \/ MainGenerate
  \/ MainMenu
  \/ MainEdit
  \/ MainRegenerate
  \/ MainCommit

Spec == Init /\ [][Next]_vars

\* ------------------------------------------- get_staged_changes, called twice
\* An environment that answers every call of one kind in one way
SteadyEnvs ==
  {[subprocess |-> {s}, name_only |-> {n}, probe |-> {FALSE}, library |-> {l},
    blob |-> {b}, file |-> {f}] :
     s \in SubprocessOutcomes, n \in NameOnlyOutcomes, l \in BOOLEAN,
     b \in BlobOutcomes, f \in {"ok", "PermissionError"}}

\* line 696, reached with staged changes, in such an environment
InitTwice ==
  /\ repo \in Repos
  /\ cwd = repo
  /\ env \in SteadyEnvs
  /\ ending = "none"
  /\ given = Empty
  /\ returned = "none"
  /\ pc = "gsc_list"
  /\ exit_code = -1
  /\ hsc = [faults |-> NoFaults, result |-> Return(TRUE)]
  /\ staged_changes = << >>
  /\ has_commits = FALSE
  /\ staged_files = << >>
  /\ total_additions = 0
  /\ total_deletions = 0
  /\ processed_paths = {}
  /\ diff_items = << >>
  /\ staged_file_paths = << >>
  /\ listing = NoListing
  /\ gsc_outcome = "running"
  /\ changes = NoChanges
  /\ commit_message = Empty
  /\ calls = [gsc |-> 1, generate |-> 0, commit |-> 0]

\* analyzer.get_staged_changes() once more, on the same analyzer and
\* repository; changes keeps the first result
CallAgain ==
  /\ pc = "generate"
  /\ calls.gsc = 1
  /\ Goto("gsc_list")
  /\ calls' = [calls EXCEPT !.gsc = 2]
  /\ gsc_outcome' = "running"
  /\ UNCHANGED <<repo, cwd, env, alone, hsc, gsc_locals, listing, changes, commit_message>>

NextTwice ==
  \/ GscList
  \/ GscStatusLine
  \/ GscStatusDone
  \/ GscFallbackEnumerate
  \/ GscFallbackItem
  \/ GscFallbackDone
  \/ GscNewEnumerateFresh
  \/ GscNewPath
  \/ GscNewEnumerate
  \/ GscNewItem
  \/ GscNewDone
  \/ GscReturn
  \/ CallAgain

SpecTwice == InitTwice /\ [][NextTwice]_vars

\* ------------------------------------- get_staged_changes with a git that hangs
\* Environments in which every library call succeeds and the subprocesses of
\* one kind end alike: well, with an error, or never by themselves
HangEnvs ==
  {[subprocess |-> {s}, name_only |-> {n}, probe |-> {FALSE}, library |-> {TRUE},
    blob |-> {"ok"}, file |-> {"ok"}] : s \in SubprocessOutcomes, n \in NameOnlyOutcomes}

\* line 696 in such an environment, with at most one path staged
InitHang ==
  /\ InitTwice
  /\ env \in HangEnvs
  /\ Cardinality(ChangedPaths(repo)) <= 1

\* The process goes on as long as it can: it is single-threaded, and every
\* step but a call that waits without end comes to its end.  For the loop of
\* the status pass, which can go on exactly when a line is left, weak
\* fairness is written out.
StatusLineLeft == pc = "gsc_status" /\ staged_changes # << >>
HangFairness ==
  /\ WF_vars(GscList)
  /\ []<>(~StatusLineLeft) \/ []<><<GscStatusLine>>_vars
  /\ WF_vars(GscStatusDone)
  /\ WF_vars(GscFallbackEnumerate)
  /\ WF_vars(GscFallbackItem)
  /\ WF_vars(GscFallbackDone)
  /\ WF_vars(GscNewEnumerateFresh)
  /\ WF_vars(GscNewPath)
  /\ WF_vars(GscNewEnumerate)
  /\ WF_vars(GscNewItem)
  /\ WF_vars(GscNewDone)
  /\ WF_vars(GscReturn)
  /\ WF_vars(CallAgain)

SpecHang == InitHang /\ [][NextTwice]_vars /\ HangFairness

\* The paths it is called with: a directory part, a name and an extension
PathPrefixes ==
  {Empty, <<"m","i","g","r","a","t","i","o","n","s","/">>, <<"t","e","s","t","s","/">>, <<"M","o","d","e","l","s","/">>, <<"A","P","I","_">>}
PathNames ==
  {Empty, <<"t","e","s","t","_","a","p","i">>, <<"x">>, <<"c","o","n","f","i","g">>, <<"s","e","t","t","i","n","g","s">>, <<"D","o","c","k","e","r","f","i","l","e">>, <<"d","o","c","k","e","r","-","c","o","m","p","o","s","e">>, <<"r","e","q","u","i","r","e","m","e","n","t","s">>, <<"s","e","t","u","p">>, <<"p","y","p","r","o","j","e","c","t">>, <<"l","a","t","e","s","t">>, <<"c","a","p","i","t","a","l">>}
PathExtensions ==
  {Empty, <<".","p","y">>, <<".","P","Y">>, <<".","j","s">>, <<".","t","s","x">>, <<".","y","m","l">>, <<".","j","s","o","n">>, <<".","m","d">>, <<".","t","x","t">>, <<".","t","o","m","l">>}
SamplePaths == {a \o b \o c : a \in PathPrefixes, b \in PathNames, c \in PathExtensions}

InitClassify ==
  /\ repo \in {r \in Repos : ChangedPaths(r) = {} /\ ~r.has_commits}
  /\ cwd = repo
  /\ env = AnyEnv
  /\ ending = "none"
  /\ given \in SamplePaths
  /\ returned = "none"
  /\ pc = "_categorize_file"
  /\ exit_code = -1
  /\ hsc = HscIdle
  /\ staged_changes = << >>
  /\ has_commits = FALSE
  /\ staged_files = << >>
  /\ total_additions = 0
  /\ total_deletions = 0
  /\ processed_paths = {}
  /\ diff_items = << >>
  /\ staged_file_paths = << >>
  /\ listing = NoListing
  /\ gsc_outcome = "none"
  /\ changes = NoChanges
  /\ commit_message = Empty
  /\ calls = [gsc |-> 0, generate |-> 0, commit |-> 0]

\* self._categorize_file(file_path), lines 128, 160, 224, 263: a call, which
\* may be repeated
Categorize ==
  /\ pc = "_categorize_file"
  /\ returned' = _categorize_file(given)
  /\ UNCHANGED <<repo, cwd, env, ending, given, pc, exit_code, hsc, gsc_locals, history, changes,
                 commit_message, calls>>

NextClassify == Categorize

SpecClassify == InitClassify /\ [][NextClassify]_vars

\* ---------------------------------------------------- _build_prompt by itself
MaxFiles == 6

\* "... (truncated)", line 656
S_TRUNCATED == <<".",".","."," ","(","t","r","u","n","c","a","t","e","d",")">>

\* lines 642-643
ImportantTypes == {"api", "model", "migration", "config"}
important_files(files) == SelectSeq(files, LAMBDA f : f.file_type \in ImportantTypes)
other_files(files) == SelectSeq(files, LAMBDA f : f.file_type \notin ImportantTypes)

\* line 644: (important_files + other_files)[:5]
files_to_show(files) ==
  LET all == important_files(files) \o other_files(files)
  IN  SubSeq(all, 1, IF Len(all) < 5 THEN Len(all) ELSE 5)

\* lines 649-656: what one file of files_to_show adds to the prompt, nothing
\* for a file without excerpt: the header with path and type, the first 40
\* lines of the excerpt, and whether "... (truncated)" follows
Snippet(file_info) ==
  IF file_info.diff = <<Empty>> THEN << >>
  ELSE LET diff_lines == SubSeq(file_info.diff, 1, IF Len(file_info.diff) < 40 THEN Len(file_info.diff) ELSE 40)
       IN  <<[path |-> file_info.path, type |-> file_info.type, text |-> JoinLines(diff_lines),
              marker |-> IF Len(file_info.diff) > 40 THEN S_TRUNCATED ELSE Empty]>>

RECURSIVE Snippets(_)
Snippets(shown) == IF shown = << >> THEN << >> ELSE Snippet(shown[1]) \o Snippets(Tail(shown))

\* the "CODE CHANGES (snippets)" section of _build_prompt(changes), lines 641-656
_build_prompt(chg) == Snippets(files_to_show(chg.files))

\* The change sets it is called with: up to MaxFiles records f1, f2, ... of
\* these kinds (category and excerpt)
LongDiff == [i \in 1..41 |-> <<"+">>]
FileKinds ==
  {<<"api", <<Empty>>, 0>>, <<"api", <<<<"+","a">>>>, 1>>, <<"python", <<<<"+","p">>>>, 1>>,
   <<"config", LongDiff, 41>>}
SampleFile(i, kind) == FileRecord(<<"f">> \o Digits(i), "modified", kind[1], kind[3], 0, kind[2])
SampleChanges ==
  UNION {{LET files == [i \in 1..n |-> SampleFile(i, kinds[i])]
          IN  [files |-> files, total_additions |-> SumAdditions(files), total_deletions |-> 0,
               file_count |-> n] : kinds \in [1..n -> FileKinds]} : n \in 0..MaxFiles}

InitPrompt ==
  /\ repo \in {r \in Repos : ChangedPaths(r) = {} /\ ~r.has_commits}
  /\ cwd = repo
  /\ env = AnyEnv
  /\ ending = "none"
  /\ given = Empty
  /\ returned = "none"
  /\ pc = "_build_prompt"
  /\ exit_code = -1
  /\ hsc = HscIdle
  /\ staged_changes = << >>
  /\ has_commits = FALSE
  /\ staged_files = << >>
  /\ total_additions = 0
  /\ total_deletions = 0
  /\ processed_paths = {}
  /\ diff_items = << >>
  /\ staged_file_paths = << >>
  /\ listing = NoListing
  /\ gsc_outcome = "none"
  /\ changes \in SampleChanges
  /\ commit_message = Empty
  /\ calls = [gsc |-> 0, generate |-> 0, commit |-> 0]

\* prompt = self._build_prompt(changes), line 536
BuildPrompt ==
  /\ pc = "_build_prompt"
  /\ returned' = _build_prompt(changes)
  /\ pc' = "prompt_built"
  /\ UNCHANGED <<repo, cwd, env, ending, given, exit_code, hsc, gsc_locals, history, changes,
                 commit_message, calls>>

NextPrompt == BuildPrompt

SpecPrompt == InitPrompt /\ [][NextPrompt]_vars

\* -------------------------------------------------- the status pass by itself
MaxLines == 2

\* Lines of a status listing, stripped (line 58): the codes git prints for an
\* addition, a deletion, a modification, a rename, a copy and a type change,
\* and lines without a tab
StatusCodes == {<<"A">>, <<"D">>, <<"M">>, <<"R","1","0","0">>, <<"C","7","5">>, <<"T">>}
SampleLines ==
  {code \o <<TAB>> \o OldPy : code \in StatusCodes}
  \cup {<<"M", TAB>> \o ReadmeMd, <<"R","1","0","0",TAB>> \o OldPy \o <<TAB>> \o NewPy,
        <<"A", " ">> \o OldPy, <<"w","a","r","n","i","n","g">>}
SampleListings == UNION {[1..n -> SampleLines] : n \in 0..MaxLines}

\* an environment in which every call succeeds
QuietEnv ==
  [subprocess |-> {"ok"}, name_only |-> {"ok"}, probe |-> {FALSE}, library |-> {TRUE},
   blob |-> {"ok"}, file |-> {"ok"}]

\* get_staged_changes at line 72, with the listing in staged_changes and in
\* given
InitLines ==
  /\ repo \in {r \in Repos : r.has_commits /\ ~r.reverse /\ ChangedPaths(r) \subseteq {OldPy, ReadmeMd}}
  /\ cwd = repo
  /\ env = QuietEnv
  /\ ending = "none"
  /\ given \in SampleListings
  /\ returned = "none"
  /\ pc = "gsc_status"
  /\ exit_code = -1
  /\ hsc = [faults |-> NoFaults, result |-> Return(TRUE)]
  /\ staged_changes = given
  /\ has_commits = TRUE
  /\ staged_files = << >>
  /\ total_additions = 0
  /\ total_deletions = 0
  /\ processed_paths = {}
  /\ diff_items = << >>
  /\ staged_file_paths = << >>
  /\ listing = [NoListing EXCEPT !.name_status = "ok"]
  /\ gsc_outcome = "running"
  /\ changes = NoChanges
  /\ commit_message = Empty
  /\ calls = [gsc |-> 1, generate |-> 0, commit |-> 0]

NextLines ==
  \/ GscStatusLine
  \/ GscStatusDone

SpecLines == InitLines /\ [][NextLines]_vars

\* ---------------------------------------------------------------------
\* main from the first request on, lines 740-856, keeping in `given` the
\* flags the process was started with and what the user typed at the menu
OneChange(kind) ==
  LET files == <<SampleFile(1, kind)>>
  IN  [files |-> files, total_additions |-> SumAdditions(files), total_deletions |-> 0,
       file_count |-> 1]

InitMenu ==
  /\ repo \in {r \in Repos : ChangedPaths(r) = {} /\ ~r.has_commits}
  /\ cwd = repo
  /\ env = AnyEnv
  /\ ending = "none"
  /\ given = Empty
  /\ returned = "none"
  /\ pc = "generate"
  /\ exit_code = -1
  /\ hsc = HscIdle
  /\ staged_changes = << >>
  /\ has_commits = FALSE
  /\ staged_files = << >>
  /\ total_additions = 0
  /\ total_deletions = 0
  /\ processed_paths = {}
  /\ diff_items = << >>
  /\ staged_file_paths = << >>
  /\ listing = NoListing
  /\ gsc_outcome = "none"
  /\ changes \in {OneChange(kind) : kind \in FileKinds}
  /\ commit_message = Empty
  /\ calls = [gsc |-> 1, generate |-> 0, commit |-> 0]

\* lines 764-780: args.auto_commit, args.no_preview and Prompt.ask(...).lower()
MenuAsked ==
  /\ pc = "menu"
  /\ \E auto_commit \in BOOLEAN, no_preview \in BOOLEAN, choice \in Choices :
       /\ Menu(auto_commit, no_preview, choice)
       /\ given' = [auto_commit |-> auto_commit, no_preview |-> no_preview, choice |-> choice]
  /\ UNCHANGED <<repo, cwd, env, returned, hsc, gsc_locals, history, calls>>

NextMenu ==
  \/ MainGenerate
  \/ MenuAsked
  \/ MainEdit
  \/ MainRegenerate
  \/ MainCommit

SpecMenu == InitMenu /\ [][NextMenu]_vars

\* ------------------------------------------------- the line counter by itself
MaxBody == 2

\* Diff texts it is given: the header of a diff of old.py, and up to MaxBody
\* lines of body: context, added and removed lines, among them the added line
\* "++i" and the removed line "-- c"
BodyLines ==
  {<<" ","x">>, <<"+","x">>, <<"-","y">>, <<"+">>, <<"-">>, <<"+","+","j">>, <<"+","+","+","i">>,
   <<"-","-","-"," ","c">>}
SampleHeader == DiffHeader([head |-> [p \in Paths |-> "b1"]], OldPy, "b1")
SampleDiffs == {Listing(SampleHeader \o body) : body \in UNION {[1..n -> BodyLines] : n \in 0..MaxBody}}

InitCount ==
  /\ repo \in {r \in Repos : ChangedPaths(r) = {} /\ ~r.has_commits}
  /\ cwd = repo
  /\ env = AnyEnv
  /\ ending = "none"
  /\ given \in SampleDiffs
  /\ returned = "none"
  /\ pc = "_count_changes"
  /\ exit_code = -1
  /\ hsc = HscIdle
  /\ staged_changes = << >>
  /\ has_commits = FALSE
  /\ staged_files = << >>
  /\ total_additions = 0
  /\ total_deletions = 0
  /\ processed_paths = {}
  /\ diff_items = << >>
  /\ staged_file_paths = << >>
  /\ listing = NoListing
  /\ gsc_outcome = "none"
  /\ changes = NoChanges
  /\ commit_message = Empty
  /\ calls = [gsc |-> 0, generate |-> 0, commit |-> 0]

\* self._count_changes(diff_index), line 155, for one item with the text
CountItems ==
  /\ pc = "_count_changes"
  /\ returned' = _count_changes(<<[diff |-> given]>>)
  /\ pc' = "counted"
  /\ UNCHANGED <<repo, cwd, env, ending, given, exit_code, hsc, gsc_locals, history, changes,
                 commit_message, calls>>

\* lines 320-326: the loop of _count_changes_from_diff over the text
CountText ==
  /\ pc = "_count_changes"
  /\ returned' = CountLines(given)
  /\ pc' = "counted"
  /\ UNCHANGED <<repo, cwd, env, ending, given, exit_code, hsc, gsc_locals, history, changes,
                 commit_message, calls>>

NextCount ==
  \/ CountItems
  \/ CountText

SpecCount == InitCount /\ [][NextCount]_vars

\* --------------------------------------------------- the excerpts by themselves
\* Repositories with readme.md staged as a new file of each length
ExcerptBlobs == {"b3", "full_diff", "full", "long"}
ExcerptRepos ==
  {[has_commits |-> c, head |-> [p \in Paths |-> NoFile],
    index |-> [p \in Paths |-> IF p = ReadmeMd THEN b ELSE NoFile], reverse |-> FALSE] :
     c \in BOOLEAN, b \in ExcerptBlobs}

\* a call: the path, and how the subprocess, the blob lookup and the opening
\* of the file end
ExcerptCalls ==
  [path : {ReadmeMd, OldPy}, subprocess : SubprocessOutcomes, blob : BlobOutcomes, file : FileOutcomes]

InitExcerpt ==
  /\ repo \in ExcerptRepos
  /\ cwd = repo
  /\ env = AnyEnv
  /\ ending = "none"
  /\ given \in ExcerptCalls
  /\ returned = "none"
  /\ pc = "excerpt"
  /\ exit_code = -1
  /\ hsc = HscIdle
  /\ staged_changes = << >>
  /\ has_commits = FALSE
  /\ staged_files = << >>
  /\ total_additions = 0
  /\ total_deletions = 0
  /\ processed_paths = {}
  /\ diff_items = << >>
  /\ staged_file_paths = << >>
  /\ listing = NoListing
  /\ gsc_outcome = "none"
  /\ changes = NoChanges
  /\ commit_message = Empty
  /\ calls = [gsc |-> 0, generate |-> 0, commit |-> 0]

\* self._get_diff_content(file_path), lines 139, 171
DiffContent ==
  /\ pc = "excerpt"
  /\ returned' = _get_diff_content(cwd, given.path, given.subprocess)
  /\ pc' = "_get_diff_content"
  /\ UNCHANGED <<repo, cwd, env, ending, given, exit_code, hsc, gsc_locals, history, changes,
                 commit_message, calls>>

\* self._get_new_file_diff(file_path), lines 232, 271
NewFileDiff ==
  /\ pc = "excerpt"
  /\ returned' = _get_new_file_diff(repo, cwd, given.path, given.blob, given.file)
  /\ pc' = "_get_new_file_diff"
  /\ UNCHANGED <<repo, cwd, env, ending, given, exit_code, hsc, gsc_locals, history, changes,
                 commit_message, calls>>

NextExcerpt ==
  \/ DiffContent
  \/ NewFileDiff

SpecExcerpt == InitExcerpt /\ [][NextExcerpt]_vars

\* ------------------- get_staged_changes of an analyzer opened somewhere else
\* GitAnalyzer(repo_path), lines 27-31, with a path that need not be the
\* current directory: self.repo is the working copy at the path, while the
\* git subprocesses (lines 51, 100, 183, 312, 363: no cwd argument) and
\* open(file_path) (lines 218, 257, 392: a relative path) read the current
\* directory.  Every call succeeds, no path begins with a blank and nothing
\* is renamed.
ElsewhereRepos ==
  {r \in Repos : ~r.reverse /\ r.index[SpacePy] = NoFile /\ r.index[NewPy] = NoFile}

InitElsewhere ==
  /\ repo \in ElsewhereRepos
  /\ cwd \in ElsewhereRepos
  /\ env = QuietEnv
  /\ ending = "none"
  /\ given = Empty
  /\ returned = "none"
  /\ pc = "gsc_list"
  /\ exit_code = -1
  /\ hsc = [faults |-> NoFaults, result |-> Return(TRUE)]
  /\ staged_changes = << >>
  /\ has_commits = FALSE
  /\ staged_files = << >>
  /\ total_additions = 0
  /\ total_deletions = 0
  /\ processed_paths = {}
  /\ diff_items = << >>
  /\ staged_file_paths = << >>
  /\ listing = NoListing
  /\ gsc_outcome = "running"
  /\ changes = NoChanges
  /\ commit_message = Empty
  /\ calls = [gsc |-> 1, generate |-> 0, commit |-> 0]

NextElsewhere ==
  \/ GscList
  \/ GscStatusLine
  \/ GscStatusDone
  \/ GscFallbackEnumerate
  \/ GscFallbackItem
  \/ GscFallbackDone
  \/ GscNewEnumerateFresh
  \/ GscNewPath
  \/ GscNewEnumerate
  \/ GscNewItem
  \/ GscNewDone
  \/ GscReturn

SpecElsewhere == InitElsewhere /\ [][NextElsewhere]_vars

\* ------------------------------------------------------------- properties
\* get_staged_changes has reached its return statement (lines 276-281)
AtReturn == pc = "gsc_return"

Records == {staged_files[i] : i \in 1..Len(staged_files)}

NoDuplicates(files) ==
  \A i, j \in 1..Len(files) : i # j => files[i].path # files[j].path

\* C1: the files list of get_staged_changes never holds two records with the
\* same path, whichever passes ran and however they ended: neither while the
\* list is built nor in the result main receives.
C1_NoDuplicatePaths == NoDuplicates(staged_files) /\ NoDuplicates(changes.files)

\* A repository without commits: the status pass recorded both staged files,
\* the new-file pass enumerated both again, and two records are returned.
C1_Witness ==
  /\ AtReturn
  /\ ~repo.has_commits
  /\ Cardinality(IndexPaths(repo)) = 2
  /\ listing.name_status = "ok"
  /\ listing.name_only = "ok"
  /\ Len(staged_files) = 2

\* C2: total_additions is the sum of the records' additions and
\* total_deletions the sum of their deletions, after every step of every pass
\* (a step of the fallback pass that raises included) and in the result.
C2_TotalsConsistent ==
  /\ total_additions = SumAdditions(staged_files)
  /\ total_deletions = SumDeletions(staged_files)
  /\ changes.total_additions = SumAdditions(changes.files)
  /\ changes.total_deletions = SumDeletions(changes.files)

\* The fallback pass gave up on a path it had taken up, the new-file pass
\* then recorded a file with counted lines, and the result is about to be
\* returned.
C2_Witness ==
  /\ AtReturn
  /\ listing.fallback = "ok"
  /\ Cardinality(processed_paths) > Len(staged_files)
  /\ total_additions > 0

\* Some enumeration of the staged paths succeeded
SomeListing ==
  \E k \in DOMAIN listing : listing[k] = "ok"

\* C3: in a repository without commits and with N staged files, whose paths
\* some pass could enumerate, get_staged_changes returns exactly N records,
\* each of type "added" with deletions 0, and total_deletions = 0.
C3_FreshRepositoryComplete ==
  (AtReturn /\ ~repo.has_commits /\ SomeListing) =>
    /\ Len(staged_files) = Cardinality(IndexPaths(repo))
    /\ \A rec \in Records : rec.type = "added" /\ rec.deletions = 0
    /\ total_deletions = 0

\* The states the specification asks has_staged_changes to answer true in
StagedState(r) ==
  \/ ~r.has_commits /\ IndexPaths(r) # {}
  \/ r.has_commits /\ r.index # r.head
  \/ \E p \in Paths : r.head[p] = NoFile /\ r.index[p] # NoFile

\* C4: when nothing fails, has_staged_changes returns true in every state
\* where no commit exists and the index has an entry, or commits exist and
\* the index differs from HEAD (also with no index entry left), or an index
\* entry is new relative to HEAD.
C4_StagedStateDetected ==
  (pc = "checked" /\ hsc.faults = NoFaults /\ StagedState(repo)) =>
    (~hsc.result.raised /\ hsc.result.value)

\* Which internal step of has_staged_changes failed in the call just made
HscEntriesFailed == hsc.faults.entries
HscHeadFailed == ~hsc.faults.entries /\ IndexPaths(repo) # {} /\ hsc.faults.head
HscDiffFailed ==
  /\ ~hsc.faults.entries /\ IndexPaths(repo) # {} /\ ~hsc.faults.head
  /\ repo.has_commits
  /\ hsc.faults.diff1 \/ (Len(IndexDiff(repo)) = 0 /\ hsc.faults.diff2)

\* C5, as stated: has_staged_changes never raises, and returns false when
\* reading the index entries, resolving HEAD or the comparison fails.
C5_FailureGivesFalse ==
  pc = "checked" =>
    /\ ~hsc.result.raised
    /\ (HscEntriesFailed \/ HscHeadFailed \/ HscDiffFailed) => ~hsc.result.value

\* C5, amended: has_staged_changes never raises; it returns false when reading
\* the index entries or resolving HEAD fails; when the index-vs-HEAD
\* comparison fails it returns whether the index has entries (true, the index
\* being non-empty at that point), and false only if reading the entries
\* then fails as well.
C5_NeverRaises ==
  pc = "checked" =>
    /\ ~hsc.result.raised
    /\ (HscEntriesFailed \/ HscHeadFailed) => ~hsc.result.value
    /\ HscDiffFailed => (hsc.result.value <=> ~hsc.faults.entries2)

\* The comparison failed and the answer was true; and a failure the outer
\* handler turned into false is covered by the states with a failed read.
C5_Witness ==
  /\ pc = "checked"
  /\ HscDiffFailed
  /\ hsc.result.value

NothingInvoked == calls.gsc = 0 /\ calls.generate = 0 /\ calls.commit = 0

\* C6: once has_staged_changes has returned false, main invokes none of
\* get_staged_changes, the generation request and the commit, and its only
\* step is to exit with code 1; get_staged_changes is invoked only after
\* has_staged_changes returned true.
C6_NothingStagedNothingInvoked ==
  /\ (hsc.result.called /\ ~hsc.result.value) =>
       /\ NothingInvoked
       /\ gsc_outcome = "none"
       /\ pc \in {"checked", "exit"}
       /\ pc = "exit" => exit_code = 1
  /\ (calls.gsc > 0 \/ gsc_outcome # "none") =>
       (hsc.result.called /\ ~hsc.result.raised /\ hsc.result.value)

\* has_staged_changes returned false without any fault, and the process is gone with 1.
C6_Witness ==
  /\ pc = "exit"
  /\ exit_code = 1
  /\ hsc.result.called
  /\ ~hsc.result.value
  /\ IndexPaths(repo) = {}

\* C7: a failure in a per-file step degrades that file's fields only: every
\* path a pass took up (it is in processed_paths) has its record when
\* get_staged_changes returns.
C7_EveryProcessedPathHasRecord ==
  AtReturn => \A p \in processed_paths : \E rec \in Records : rec.path = p

\* No strategy could enumerate the staged paths: the status listing failed
\* and so did every enumeration tried after it.
AllListingFailed ==
  /\ listing.name_status = "failed"
  /\ IF repo.has_commits
     THEN listing.fallback = "failed" /\ listing.index_diff = "failed"
     ELSE listing.name_only = "failed" /\ listing.entries = "failed"

RenameStaged ==
  /\ repo.has_commits
  /\ IsRenameTarget(repo, NewPy)
  /\ RenameSourceOf(repo, NewPy) = OldPy
  /\ listing.name_status = "ok"

\* C9: for the staged rename of old.py to new.py get_staged_changes returns
\* exactly one record, with path new.py, type "renamed" and 0 additions and
\* deletions; no record names old.py or both paths.
C9_RenameRecordedUnderNewPath ==
  (AtReturn /\ RenameStaged) =>
    /\ \E i \in 1..Len(staged_files) :
         /\ staged_files[i].path = NewPy
         /\ staged_files[i].type = "renamed"
         /\ staged_files[i].additions = 0
         /\ staged_files[i].deletions = 0
         /\ \A j \in 1..Len(staged_files) : staged_files[j].path = NewPy => j = i
    /\ \A rec \in Records : ~Contains(rec.path, OldPy)

\* The excerpt came from _get_new_file_diff: it opens with "+++ <path>"
IsNewFileExcerpt(rec) ==
  rec.diff # << >> /\ rec.diff[1] = S_PLUS \o rec.path

\* C10, as stated: no stored excerpt has more than 100 lines plus the marker
\* line.
C10_AtMost101Lines ==
  \A rec \in Records : Len(rec.diff) <= max_lines + 1

\* C10, amended: an excerpt of _get_diff_content has at most 101 lines, and
\* for a diff of more than 100 lines it is the first 100 lines and the marker
\* line.  An excerpt of _get_new_file_diff is the header line "+++ <path>"
\* followed by the content under the same law: at most 102 lines, and for a
\* content of more than 100 lines the header, the first 100 lines and the
\* marker line.
C10_TruncationLaw ==
  \A rec \in Records :
    IF IsNewFileExcerpt(rec)
    THEN /\ Len(rec.diff) <= max_lines + 2
         /\ (rec.path \in Paths /\ Len(rec.diff) > 2
               /\ Len(FileLines(repo.index[rec.path])) > max_lines) =>
              /\ Len(rec.diff) = max_lines + 2
              /\ SubSeq(rec.diff, 2, max_lines + 1)
                   = SubSeq(FileLines(repo.index[rec.path]), 1, max_lines)
              /\ rec.diff[max_lines + 2] = TruncationMarker(max_lines)
    ELSE /\ Len(rec.diff) <= max_lines + 1
         /\ (rec.path \in Paths /\ Len(rec.diff) > 1
               /\ Len(DiffOut(repo, rec.path)) > max_lines + 1) =>
              /\ Len(rec.diff) = max_lines + 1
              /\ SubSeq(rec.diff, 1, max_lines) = SubSeq(DiffOut(repo, rec.path), 1, max_lines)
              /\ rec.diff[max_lines + 1] = TruncationMarker(max_lines)

\* A new file of more than 100 lines was recorded with its truncated
\* excerpt: header, 100 lines, marker.
C10_Witness ==
  \E rec \in Records :
    /\ IsNewFileExcerpt(rec)
    /\ Len(rec.diff) = max_lines + 2
    /\ rec.diff[max_lines + 2] = TruncationMarker(max_lines)

\* C11: in a repository that does not change and an environment that answers
\* alike, the second call of get_staged_changes is about to return what the
\* first returned: the same records in the same order and the same totals.
C11_SecondCallSameResult ==
  (AtReturn /\ calls.gsc = 2) =>
    Result(staged_files, total_additions, total_deletions) = changes

\* The second call is about to return two records with counted lines.
C11_Witness ==
  /\ AtReturn
  /\ calls.gsc = 2
  /\ Len(staged_files) = 2
  /\ total_additions > 0

\* str.upper()
UpperChar(c) ==
  IF \E i \in 1..26 : LowerCase[i] = c
  THEN UpperCase[CHOOSE i \in 1..26 : LowerCase[i] = c]
  ELSE c

Upper(s) == [i \in 1..Len(s) |-> UpperChar(s[i])]

\* The rules of the classifier in their order 1 to 12: the condition of rule
\* k on a lower-cased path p, and its category
RuleHolds(k, p) ==
  CASE k = 1 -> EndsWith(p, S_PY) /\ Contains(p, S_MIGRATION)
    [] k = 2 -> EndsWith(p, S_PY) /\ Contains(p, S_TEST)
    [] k = 3 -> EndsWith(p, S_PY) /\ Contains(p, S_MODEL)
    [] k = 4 -> EndsWith(p, S_PY) /\ Contains(p, S_API)
    [] k = 5 -> EndsWith(p, S_PY) /\ (Contains(p, S_CONFIG) \/ Contains(p, S_SETTINGS))
    [] k = 6 -> EndsWith(p, S_PY)
    [] k = 7 -> \E x \in {S_JS, S_JSX, S_TS, S_TSX} : EndsWith(p, x)
    [] k = 8 -> \E x \in {S_JSON, S_YAML, S_YML} : EndsWith(p, x)
    [] k = 9 -> \E x \in {S_MD, S_TXT, S_RST} : EndsWith(p, x)
    [] k = 10 -> Contains(p, S_DOCKERFILE) \/ Contains(p, S_DOCKER_COMPOSE)
    [] k = 11 -> Contains(p, S_REQUIREMENTS) \/ Contains(p, S_SETUP_PY)
                   \/ Contains(p, S_PYPROJECT_TOML)
    [] OTHER -> TRUE

RuleCategory(k) ==
  CASE k = 1 -> "migration" [] k = 2 -> "test" [] k = 3 -> "model" [] k = 4 -> "api"
    [] k = 5 -> "config" [] k = 6 -> "python" [] k = 7 -> "javascript" [] k = 8 -> "config"
    [] k = 9 -> "documentation" [] k = 10 -> "docker" [] k = 11 -> "dependencies"
    [] OTHER -> "other"

FirstRule(p) == CHOOSE k \in 1..12 : RuleHolds(k, p) /\ \A j \in 1..(k - 1) : ~RuleHolds(j, p)

Categories ==
  {"migration", "test", "model", "api", "config", "python", "javascript", "documentation",
   "docker", "dependencies", "other"}

\* C13: for every string, the empty one included, _categorize_file returns
\* one of the eleven categories, and a further call with the same string
\* returns the same.
C13_TotalAndDeterministic ==
  returned # "none" => (returned \in Categories /\ _categorize_file(given) = returned)

\* The empty string was classified: other.
C13_Witness ==
  /\ pc = "_categorize_file"
  /\ given = Empty
  /\ returned = "other"

\* The endings the specification counts as unrecoverable errors
ListedErrors ==
  {"not_a_repository", "nothing_staged", "no_api_key", "generation_failed", "empty_message",
   "commit_failed"}

\* every other ending with an error: get_staged_changes raised, a change set
\* without files, the editor could not be run, an interrupt during regenerate
OtherErrors == {"analysis_raised", "nothing_to_analyze", "editor_failed", "aborted"}

\* C14, as stated: main exits with 1 on every unrecoverable error, an empty
\* message after the edit included, and with 0 only after a successful commit,
\* a quit, or a declined regenerated message.
C14_ExitCodesAsListed ==
  pc = "exit" =>
    /\ ending \in ListedErrors \cup {"empty_edit"} => exit_code = 1
    /\ exit_code = 0 => ending \in {"committed", "quit", "declined"}

\* C14, amended: main exits with 1 on every error (not a repository, nothing
\* staged, generation failure, an empty message as generated, commit failure,
\* and the others), and with 0 only after a successful commit or a
\* cancellation by the user: quit, a declined regenerated message, an edit
\* saved empty, an interrupt of the first generation request.
C14_ExitCodes ==
  pc = "exit" =>
    /\ exit_code \in {0, 1}
    /\ ending \in ListedErrors \cup OtherErrors => exit_code = 1
    /\ exit_code = 0 => ending \in {"committed", "quit", "declined", "empty_edit", "interrupted"}
    /\ exit_code = 1 => ending \in ListedErrors \cup OtherErrors

\* The user saved an empty message in the editor and the process left with 0.
C14_Witness ==
  /\ pc = "exit"
  /\ ending = "empty_edit"
  /\ exit_code = 0
  /\ calls.generate = 1

\* C15: a failed generation request ends the process with 1 and without a
\* commit, and is not repeated: the count of requests grows by one at a time,
\* by the first request of main and once more after the choice of
\* regenerate only.
C15_FailureFatalNoRetry ==
  /\ [](ending = "generation_failed" => (pc = "exit" /\ exit_code = 1 /\ calls.commit = 0))
  /\ [](calls.generate \in 0..2)
  /\ [][calls'.generate # calls.generate =>
          /\ calls'.generate = calls.generate + 1
          /\ \/ pc = "generate" /\ calls.generate = 0
             \/ pc = "regenerate" /\ calls.generate = 1]_vars

\* The request made after the choice of regenerate failed: the second request
\* of the run, and the process is gone with 1.
C15_Witness ==
  /\ ending = "generation_failed"
  /\ calls.generate = 2
  /\ exit_code = 1
  /\ calls.commit = 0

\* the records of a change set that have an excerpt
WithExcerpt(files) == SelectSeq(files, LAMBDA f : f.diff # <<Empty>>)

\* the paths of a sequence of records or of snippets
RECURSIVE PathsOf(_)
PathsOf(fs) == IF fs = << >> THEN << >> ELSE <<fs[1].path>> \o PathsOf(Tail(fs))

\* s is t with some elements left out
RECURSIVE IsSubsequence(_, _)
IsSubsequence(s, t) ==
  IF s = << >> THEN TRUE
  ELSE IF t = << >> THEN FALSE
  ELSE IF s[1] = t[1] THEN IsSubsequence(Tail(s), Tail(t))
  ELSE IsSubsequence(s, Tail(t))

\* C16, as stated: the prompt holds exactly 5 excerpts when at least 5 files
\* of the change set have a non-empty excerpt, an excerpt of a file outside
\* api/model/migration/config only when fewer than 5 files of these categories
\* are there, and the excerpts come with the priority files first, each group
\* in record order.
C16_FiveExcerptsByPriority ==
  pc = "prompt_built" =>
    /\ Len(returned) <= 5
    /\ Len(WithExcerpt(changes.files)) >= 5 => Len(returned) = 5
    /\ (\E i \in 1..Len(returned) :
          \E f \in {changes.files[j] : j \in 1..Len(changes.files)} :
            f.path = returned[i].path /\ f.file_type \notin ImportantTypes)
        => Len(important_files(changes.files)) < 5
    /\ IsSubsequence(PathsOf(returned),
                     PathsOf(important_files(changes.files) \o other_files(changes.files)))

\* an environment in which no call fails
NothingFails ==
  /\ env.subprocess = {"ok"}
  /\ env.name_only = {"ok"}
  /\ env.library = {TRUE}
  /\ env.blob = {"ok"}
  /\ env.file = {"ok"}

\* p is staged as a new file without history: not in HEAD, and not the new
\* name of a renamed file
NewlyAdded(r, p) == p \in Paths /\ r.head[p] = NoFile /\ r.index[p] # NoFile /\ ~IsRenameTarget(r, p)

\* C17, as stated: the record of a newly added file has as additions the
\* number of non-blank lines of the staged blob and 0 deletions, whichever
\* pass wrote the record.
C17_NewFileAdditionsNonBlank ==
  (AtReturn /\ NothingFails) =>
    \A rec \in Records :
      (rec.type = "added" /\ NewlyAdded(repo, rec.path)) =>
        /\ rec.additions = NonBlank(FileLines(repo.index[rec.path]))
        /\ rec.deletions = 0

\* the change type the specification gives a status code
TypeOfCode(c) ==
  CASE c = "A" -> "added"
    [] c = "D" -> "deleted"
    [] c \in {"R", "C"} -> "renamed"
    [] OTHER -> "modified"

\* the number of tabs of a line
Tabs(line) == Cardinality({i \in 1..Len(line) : line[i] = TAB})

\* C18: a step of the status pass over one line appends at most one record and
\* changes no earlier one; it appends none for a line without a tab; the type
\* of the record it appends is given by the first character of the line's
\* status code: A added, D deleted, R or C renamed, anything else modified.
C18_StatusLineGivesTypeByPrefix ==
  [][(pc = "gsc_status" /\ staged_changes # << >>) =>
       LET line == Head(staged_changes)
           n == Len(staged_files)
       IN  /\ Len(staged_files') \in {n, n + 1}
           /\ SubSeq(staged_files', 1, n) = staged_files
           /\ Tabs(line) = 0 => staged_files' = staged_files
           /\ Len(staged_files') = n + 1 => staged_files'[n + 1].type = TypeOfCode(line[1])]_vars

\* The pass has read a line without a tab and then a line with the code C75:
\* one record, and it is a rename.
C18_Witness ==
  /\ pc = "gsc_status"
  /\ given = <<<<"A", " ">> \o OldPy, <<"C","7","5",TAB>> \o OldPy>>
  /\ staged_changes = << >>
  /\ Len(staged_files) = 1
  /\ staged_files[1].type = "renamed"

\* where get_staged_changes is: 1 in the status pass, 2 in the fallback pass,
\* 3 in the new-file pass, 4 at its return, 0 anywhere else
PassOf(place) ==
  CASE place = "gsc_status" -> 1
    [] place \in {"gsc_fallback", "gsc_fallback_loop"} -> 2
    [] place \in {"gsc_new", "gsc_new_paths", "gsc_new_items"} -> 3
    [] place = "gsc_return" -> 4
    [] OTHER -> 0

\* C19: the fallback pass is entered exactly when the status pass ends with
\* no record in a repository with commits, and from nowhere else, so with a
\* record of the status pass or without commits no record comes from it; the
\* passes run in the order status pass, fallback pass, new-file pass.
C19_FallbackIffNothingAndCommits ==
  /\ [][(PassOf(pc) = 1 /\ PassOf(pc') # 1) =>
          IF staged_files = << >> /\ repo.has_commits THEN PassOf(pc') = 2 ELSE PassOf(pc') = 3]_vars
  /\ [][(PassOf(pc') = 2 /\ PassOf(pc) # 2) =>
          (PassOf(pc) = 1 /\ staged_files = << >> /\ repo.has_commits)]_vars
  /\ [][(PassOf(pc') = 4 /\ PassOf(pc) # 4) => PassOf(pc) = 3]_vars
  /\ [][(PassOf(pc) # 0 /\ PassOf(pc') # 0) => PassOf(pc') >= PassOf(pc)]_vars
  /\ [](listing.fallback # "none" => repo.has_commits)

\* The fallback pass is running and has written a record.
C19_Witness ==
  /\ pc = "gsc_fallback_loop"
  /\ repo.has_commits
  /\ listing.name_status = "failed"
  /\ Len(staged_files) = 1

\* the path, type and counts of the record the status pass writes for the
\* staged entry e of r when every call succeeds
StatusPassRecord(r, e) ==
  LET parts == SplitOnce(NameStatusLine(e), TAB)
      stats == StatusStats(r, StatusLinePath(parts), "ok", "ok")
  IN  [path |-> StatusLinePath(parts), type |-> StatusChangeType(parts[1]),
       additions |-> stats[1], deletions |-> stats[2]]

\* C20, as stated: in a repository with commits whose status listing is
\* unavailable, each record the fallback pass writes is a record the status
\* pass would have written: the same path, change type, additions and
\* deletions.  (Stated for the orientation of index.diff in which an added
\* file shows as new.)
C20_FallbackSameAsStatusPass ==
  [][(pc = "gsc_fallback_loop" /\ ~repo.reverse /\ Len(staged_files') = Len(staged_files) + 1) =>
       LET rec == staged_files'[Len(staged_files')]
       IN  \E i \in 1..Len(StagedEntries(repo)) :
             StatusPassRecord(repo, StagedEntries(repo)[i]) =
               [path |-> rec.path, type |-> rec.type, additions |-> rec.additions,
                deletions |-> rec.deletions]]_vars

\* the number of records of staged_files with the path p
RecordsOf(p) == Cardinality({i \in 1..Len(staged_files) : staged_files[i].path = p})

\* the enumeration of the new-file pass gave the staged paths
NewFilePassListed ==
  \/ listing.name_only = "ok"
  \/ listing.entries = "ok"
  \/ listing.index_diff = "ok"

\* C21, as stated: at the return of get_staged_changes every path that is in
\* the index and not in history has exactly one record, also when the status
\* pass listed nothing or could not run.  (Stated for a new-file pass whose
\* own enumeration succeeded, and for the orientation of index.diff in which
\* an added file shows as new.)
C21_NewFilesRepresentedOnce ==
  (AtReturn /\ NewFilePassListed /\ ~repo.reverse) =>
    \A p \in Paths : NewlyAdded(repo, p) => RecordsOf(p) = 1

\* the additions the documented chain gives the new file p of r when the
\* blob lookup and read end as b and the opening of the working-tree file
\* as f: the non-blank lines of the blob, else those of the file, else 0
ChainAdditions(r, p, b, f) ==
  IF BlobLookup(r, p, b) = "ok" THEN NonBlank(FileLines(r.index[p]))
  ELSE IF FileOpen(r, p, f) = "ok" THEN NonBlank(FileLines(r.index[p]))
  ELSE 0

\* C22, as stated: a step of the new-file pass that takes up a path appends a
\* record for it whose additions follow the chain blob, working-tree file, 0,
\* each counted by non-blank lines, and the pass goes on.  (In an environment
\* where calls of one kind end alike.)
C22_NewFileCountFollowsChain ==
  [][(pc \in {"gsc_new_paths", "gsc_new_items"} /\ processed_paths' # processed_paths) =>
       LET p == CHOOSE q \in processed_paths' : q \notin processed_paths
           b == CHOOSE o \in env.blob : TRUE
           f == CHOOSE o \in env.file : TRUE
       IN  /\ Len(staged_files') = Len(staged_files) + 1
           /\ staged_files'[Len(staged_files')].path = p
           /\ staged_files'[Len(staged_files')].additions = ChainAdditions(repo, p, b, f)
           /\ pc' = pc]_vars

\* the lines of a diff text after its header
BodyOf(text) == SubSeq(text, Len(SampleHeader) + 1, Len(text))

\* C23, as stated: the counter gives the number of added and of removed
\* lines of the diff, that is of the lines after the header that begin with
\* '+' and with '-', those whose own text begins with '++' or '--' included.
C23_CountsEveryAddedAndRemovedLine ==
  pc = "counted" =>
    returned = <<CountPrefix(BodyOf(given), "+"), CountPrefix(BodyOf(given), "-")>>

\* the text has the truncation marker as one of its lines
HasMarker(text) == \E i \in 1..Len(text) : text[i] = TruncationMarker(max_lines)

\* the number of lines of a text that ends with a newline
LinesOf(text) == Len(text) - 1

\* C24, as stated: for a diff or a file content of at most 100 lines that
\* could be read, _get_diff_content returns the diff and _get_new_file_diff
\* the header and the content, complete and without truncation marker.
C24_NoMarkerUnlessCut ==
  /\ (pc = "_get_diff_content" /\ given.subprocess = "ok" /\ OnDisk(repo, given.path)
        /\ LinesOf(DiffOut(repo, given.path)) <= max_lines) =>
       (returned = DiffOut(repo, given.path) /\ ~HasMarker(returned))
  /\ (pc = "_get_new_file_diff" /\ BlobLookup(repo, given.path, given.blob) = "ok"
        /\ LinesOf(Content(repo.index[given.path])) <= max_lines) =>
       (returned = <<S_PLUS \o given.path>> \o Content(repo.index[given.path])
        /\ ~HasMarker(returned))

IsLetter(c) == \E i \in 1..Len(LowerCase) : c = LowerCase[i] \/ c = UpperCase[i]

\* w occurs in s as a word of its own: with no letter before it and none
\* after it
OccursAsWord(s, w) ==
  \E i \in 1..(Len(s) - Len(w) + 1) :
    /\ SubSeq(s, i, i + Len(w) - 1) = w
    /\ i = 1 \/ ~IsLetter(s[i - 1])
    /\ i + Len(w) > Len(s) \/ ~IsLetter(s[i + Len(w)])

\* the words that stand for a category
WordsOf(category) ==
  CASE category = "migration" -> {S_MIGRATION, S_MIGRATIONS}
    [] category = "test" -> {S_TEST, S_TESTS}
    [] category = "model" -> {S_MODEL, S_MODELS}
    [] category = "api" -> {S_API}
    [] category = "config" -> {S_CONFIG, S_SETTINGS}

WordCategories == {"migration", "test", "model", "api", "config"}

\* C25, as stated: a path ending in .py is given one of the categories
\* migration, test, model, api, config only when a word of that category
\* occurs in it as a word of its own, and python when none does.
C25_WordsAsSegments ==
  (returned # "none" /\ EndsWith(Lower(given), S_PY)) =>
    /\ returned \in WordCategories =>
         \E w \in WordsOf(returned) : OccursAsWord(Lower(given), w)
    /\ (\A c \in WordCategories : \A w \in WordsOf(c) : ~OccursAsWord(Lower(given), w)) =>
         returned = "python"

\* get_staged_changes is running
GscRunning == gsc_outcome = "running"

\* C26, as stated: every call of get_staged_changes comes to its end, by
\* returning or, for the HEAD lookup, by raising: a git subprocess that hangs
\* is ended by its timeout and the call goes on with a degraded value.
C26_GetStagedChangesTerminates == GscRunning ~> ~GscRunning

\* C27, as stated: at the return of get_staged_changes every path marked as
\* processed has exactly one record, the paths of the records are the
\* processed paths, and file_count is the number of records.
C27_ProcessedPathsAreTheRecords ==
  AtReturn =>
    /\ \A p \in processed_paths : RecordsOf(p) = 1
    /\ {rec.path : rec \in Records} = processed_paths
    /\ Result(staged_files, total_additions, total_deletions).file_count = Len(staged_files)

\* C28: in one run of main a commit is attempted at most once, and only at
\* the commit step with a message that is not blank; the commit step is
\* entered only from the menu, the editor or a confirmed regeneration, and
\* the menu only by a generation request that succeeded; a run that ended
\* in any other way than by the commit attempt (quit, declined, editor
\* failure, generation failure, ...) has attempted no commit.
CommitAttempted == calls'.commit # calls.commit

GenerationSucceeded ==
  /\ pc \in {"generate", "regenerate"}
  /\ calls'.generate = calls.generate + 1
  /\ commit_message' \in {Strip(content) : content \in Responses \ {Empty}}

C28_CommitOnceAfterGeneration ==
  /\ [](calls.commit \in {0, 1})
  /\ [][CommitAttempted =>
          /\ pc = "commit" /\ calls.commit = 0 /\ calls'.commit = 1
          /\ calls.generate >= 1
          /\ Strip(commit_message) # Empty]_vars
  /\ [][(pc' = "commit" /\ pc # "commit") => pc \in {"menu", "edit", "regenerate"}]_vars
  /\ [][(pc' = "menu" /\ pc # "menu") => (pc = "generate" /\ GenerationSucceeded)]_vars
  /\ [][(pc' = "commit" /\ pc = "regenerate") => GenerationSucceeded]_vars
  /\ [](ending \in {"quit", "declined", "editor_failed", "empty_edit", "generation_failed",
                    "aborted", "interrupted", "empty_message", "no_api_key"}
          => calls.commit = 0)

C28_Witness ==
  pc = "exit" /\ ending = "committed" /\ calls.commit = 1 /\ calls.generate = 2

\* C29: without --auto-commit and --no-preview a commit is attempted only
\* when the user typed 'c' (the default), 'e' or 'r' at the menu, and the
\* editor and the second request are entered only from the menu shown.
Interactive == ~given.auto_commit /\ ~given.no_preview

C29_CommitOnlyWhenAccepted ==
  /\ (calls.commit = 1 /\ Interactive) => given.choice \in {"c", "e", "r"}
  /\ pc \in {"edit", "regenerate"} => Interactive

\* C30: what get_staged_changes returns describes the working copy the
\* analyzer was opened at, whatever the current directory is: every record
\* names a path staged there, and every path staged there has a record.
C30_RecordsOfTheOpenedRepository ==
  AtReturn =>
    /\ \A rec \in Records : rec.path \in ChangedPaths(repo)
    /\ \A p \in ChangedPaths(repo) : \E rec \in Records : rec.path = p

====
